---- MODULE Spec2Model ----
(***************************************************************************)
(* Model of the Family Points skill backend (alexa-points-skill/lambda/    *)
(* index.js): the spreadsheet-backed store (Families tab + one events tab  *)
(* per family), the slot normaliser, the aggregator and the four request   *)
(* handlers that touch the store.                                          *)
(*                                                                         *)
(* Text is a sequence of tokens.  A token is a word in one of its letter   *)
(* cases ("krish", "Krish", "KRISH"), a blank " ", a comma ",", an         *)
(* ampersand "&", the possessive suffix "'s", or one character of a        *)
(* number ("-", "0".."9").  A calendar date is [y, m, d]; the clock adds   *)
(* a slot t of the day.                                                    *)
(***************************************************************************)
EXTENDS Integers, Sequences, FiniteSets, TLC

(***************************************************************************)
(* Bounds of the model.                                                    *)
(***************************************************************************)
MaxRequests == 2
MaxTicks == 1

(***************************************************************************)
(* Program constants.                                                      *)
(***************************************************************************)
MAX_BAR_HEIGHT == 200
SPARK_MAX_HEIGHT == 60
MAX_KIDS == 6
FAMILIES_TAB == <<"Families">>
EVENTS_TAB_PREFIX == "Family_"
EVENTS_HEADER == <<"timestamp_iso", "date", "person", "delta", "who", "note">>
FAMILIES_HEADER == <<"user_id", "tab_name", "kids", "created_at", "updated_at">>

(***************************************************************************)
(* Letter case of the word tokens: <<lower, Title, UPPER>>.                *)
(***************************************************************************)
WordForms ==
  { <<"krish", "Krish", "KRISH">>, <<"adith", "Adith", "ADITH">>,
    <<"anna", "Anna", "ANNA">>, <<"ben", "Ben", "BEN">>,
    <<"zoe", "Zoe", "ZOE">>, <<"and", "And", "AND">>,
    <<"reduce", "Reduce", "REDUCE">>, <<"add", "Add", "ADD">>,
    <<"take", "Take", "TAKE">>, <<"away", "Away", "AWAY">>,
    <<"takeaway", "Takeaway", "TAKEAWAY">>, <<"minus", "Minus", "MINUS">>,
    <<"remove", "Remove", "REMOVE">>, <<"subtract", "Subtract", "SUBTRACT">>,
    <<"deduct", "Deduct", "DEDUCT">>, <<"reduced", "Reduced", "REDUCED">>,
    <<"give", "Give", "GIVE">>, <<"week", "Week", "WEEK">>,
    <<"weekly", "Weekly", "WEEKLY">>, <<"month", "Month", "MONTH">>,
    <<"today", "Today", "TODAY">>, <<"this", "This", "THIS">>,
    <<"x", "X", "X">> }

\* the word tokens that hold another word as a substring, and where:
\* <<token, substring, "start">> or <<token, substring, "end">>
Substrings ==
  { <<"reduced", "reduce", "start">>, <<"weekly", "week", "start">>,
    <<"takeaway", "take", "start">>, <<"takeaway", "away", "end">> }

StartsWith(tok, part) == tok = part \/ <<tok, part, "start">> \in Substrings

EndsWith(tok, part) == tok = part \/ <<tok, part, "end">> \in Substrings

HasPart(tok, part) == StartsWith(tok, part) \/ EndsWith(tok, part)

\* String.prototype.includes for a text and a keyword of lower-case tokens:
\* a keyword of one token may lie anywhere in a token of the text; of a
\* longer keyword the first token ends a token of the text and the last
\* token starts one
includes(text, key) ==
  \E i \in 1..Len(text) :
    /\ i + Len(key) - 1 <= Len(text)
    /\ \A k \in 1..Len(key) :
         IF Len(key) = 1 THEN HasPart(text[i], key[1])
         ELSE IF k = 1 THEN EndsWith(text[i], key[1])
         ELSE IF k = Len(key) THEN StartsWith(text[i + k - 1], key[k])
         ELSE text[i + k - 1] = key[k]

IsWord(tok) == \E f \in WordForms : tok \in {f[1], f[2], f[3]}

FormsOf(tok) == CHOOSE f \in WordForms : tok \in {f[1], f[2], f[3]}

\* String.prototype.toLowerCase, token by token
LowerTok(tok) == IF IsWord(tok) THEN FormsOf(tok)[1] ELSE tok

\* charAt(0).toUpperCase() + slice(1).toLowerCase() of a string that is one token
TitleTok(tok) == IF IsWord(tok) THEN FormsOf(tok)[2] ELSE tok

toLowerCase(s) == [i \in 1..Len(s) |-> LowerTok(s[i])]

RECURSIVE TrimLeft(_)
TrimLeft(s) ==
  IF s # <<>> /\ s[1] = " " THEN TrimLeft(Tail(s)) ELSE s

RECURSIVE TrimRight(_)
TrimRight(s) ==
  IF s # <<>> /\ s[Len(s)] = " " THEN TrimRight(SubSeq(s, 1, Len(s) - 1)) ELSE s

\* String.prototype.trim
trim(s) == TrimRight(TrimLeft(s))

\* replace(/\s+/g, ' ')
RECURSIVE CollapseSpaces(_)
CollapseSpaces(s) ==
  IF s = <<>> THEN <<>>
  ELSE IF s[1] = " " THEN <<" ">> \o CollapseSpaces(TrimLeft(s))
  ELSE <<s[1]>> \o CollapseSpaces(Tail(s))

normalizeNameOff(raw) ==
  IF raw = <<>> THEN <<>>
  ELSE LET cleaned == CollapseSpaces(trim(raw))
       IN  IF cleaned = <<>> THEN <<>>
           ELSE <<LowerTok(cleaned[1])>> \o toLowerCase(Tail(cleaned))

normalizeName(raw) ==
  IF raw = <<>> THEN <<>>
  ELSE LET cleaned == CollapseSpaces(trim(raw))
       IN  IF cleaned = <<>> THEN <<>>
           ELSE <<TitleTok(cleaned[1])>> \o toLowerCase(Tail(cleaned))

\* String.prototype.split(',')
RECURSIVE Split(_)
Split(s) ==
  IF \A i \in 1..Len(s) : s[i] # "," THEN <<s>>
  ELSE LET k == CHOOSE i \in 1..Len(s) : s[i] = "," /\ \A j \in 1..(i - 1) : s[j] # ","
       IN  <<SubSeq(s, 1, k - 1)>> \o Split(SubSeq(s, k + 1, Len(s)))

\* Array.prototype.join(', ')
RECURSIVE Join(_)
Join(names) ==
  IF names = <<>> THEN <<>>
  ELSE IF Len(names) = 1 THEN names[1]
  ELSE names[1] \o <<",", " ">> \o Join(Tail(names))

RECURSIVE SelectNonEmpty(_)
SelectNonEmpty(names) ==
  IF names = <<>> THEN <<>>
  ELSE IF names[1] = <<>> THEN SelectNonEmpty(Tail(names))
  ELSE <<names[1]>> \o SelectNonEmpty(Tail(names))

parseKidsList(raw) ==
  IF raw = <<>> THEN <<>>
  ELSE LET parts == Split(raw)
       IN  SelectNonEmpty([i \in 1..Len(parts) |-> normalizeName(parts[i])])

\* replace(/&/g, ' and ')
RECURSIVE ReplaceAmp(_)
ReplaceAmp(s) ==
  IF s = <<>> THEN <<>>
  ELSE IF s[1] = "&" THEN <<" ", "and", " ">> \o ReplaceAmp(Tail(s))
  ELSE <<s[1]>> \o ReplaceAmp(Tail(s))

\* replace(/\s+and\s+/gi, ','): leftmost match first, matches do not overlap
RECURSIVE ReplaceAnd(_)
ReplaceAnd(s) ==
  IF s = <<>> THEN <<>>
  ELSE IF s[1] = " "
    THEN LET rest == TrimLeft(s)
             run  == Len(s) - Len(rest)
         IN  IF Len(rest) >= 2 /\ LowerTok(rest[1]) = "and" /\ rest[2] = " "
               THEN <<",">> \o ReplaceAnd(TrimLeft(Tail(rest)))
               ELSE SubSeq(s, 1, run) \o
                    (IF rest = <<>> THEN <<>> ELSE <<rest[1]>> \o ReplaceAnd(Tail(rest)))
  ELSE <<s[1]>> \o ReplaceAnd(Tail(s))

\* replace(/\s*,\s*/g, ',')
RECURSIVE TightenCommas(_)
TightenCommas(s) ==
  IF s = <<>> THEN <<>>
  ELSE IF s[1] = "," THEN <<",">> \o TightenCommas(TrimLeft(Tail(s)))
  ELSE IF s[1] = " " /\ TrimLeft(s) # <<>> /\ TrimLeft(s)[1] = ","
    THEN TightenCommas(TrimLeft(s))
  ELSE <<s[1]>> \o TightenCommas(Tail(s))

\* every name is kept, repeats too
UniqueKeepAll(names, seen) == seen \o names

\* the loop of lines 300-305: keep the first occurrence, compare lower-cased
RECURSIVE Unique(_, _)
Unique(names, seen) ==
  IF names = <<>> THEN seen
  ELSE IF \E i \in 1..Len(seen) : toLowerCase(seen[i]) = toLowerCase(names[1])
    THEN Unique(Tail(names), seen)
  ELSE Unique(Tail(names), Append(seen, names[1]))

\* every name is returned, however many
parseKidsInputUncapped(raw) ==
  IF raw = <<>> THEN <<>>
  ELSE LET cleaned == trim(TightenCommas(ReplaceAnd(ReplaceAmp(raw))))
           parts   == Split(cleaned)
           names   == SelectNonEmpty([i \in 1..Len(parts) |-> normalizeName(parts[i])])
       IN  Unique(names, <<>>)

parseKidsInput(raw) ==
  IF raw = <<>> THEN <<>>
  ELSE LET cleaned == trim(TightenCommas(ReplaceAnd(ReplaceAmp(raw))))
           parts   == Split(cleaned)
           names   == SelectNonEmpty([i \in 1..Len(parts) |-> normalizeName(parts[i])])
           unique  == Unique(names, <<>>)
       IN  SubSeq(unique, 1, IF Len(unique) < MAX_KIDS THEN Len(unique) ELSE MAX_KIDS)

(***************************************************************************)
(* Numbers as text: parseInt(value, 10) and the text a numeric cell reads   *)
(* back as.                                                                *)
(***************************************************************************)
Digits == <<"0", "1", "2", "3", "4", "5", "6", "7", "8", "9">>

IsDigit(c) == \E i \in 1..Len(Digits) : Digits[i] = c

DigitVal(c) == (CHOOSE i \in 1..Len(Digits) : Digits[i] = c) - 1

RECURSIVE ParseDigits(_, _)
ParseDigits(s, acc) ==
  IF s = <<>> \/ ~IsDigit(s[1]) THEN acc
  ELSE ParseDigits(Tail(s), acc * 10 + DigitVal(s[1]))

Abs(n) == IF n < 0 THEN -n ELSE n

Max(a, b) == IF a > b THEN a ELSE b

\* a text without a number is read as 1
toIntDefaultOne(value) ==
  LET t    == TrimLeft(value)
      neg  == t # <<>> /\ t[1] = "-"
      body == IF t # <<>> /\ t[1] \in {"-", "+"} THEN Tail(t) ELSE t
  IN  IF body = <<>> \/ ~IsDigit(body[1]) THEN 1
      ELSE IF neg THEN -ParseDigits(body, 0) ELSE ParseDigits(body, 0)

\* parseInt skips leading blanks, takes a sign, reads digits up to the first
\* other character; with no digit it is NaN, which toInt turns into 0
toInt(value) ==
  LET t    == TrimLeft(value)
      neg  == t # <<>> /\ t[1] = "-"
      body == IF t # <<>> /\ t[1] \in {"-", "+"} THEN Tail(t) ELSE t
  IN  IF body = <<>> \/ ~IsDigit(body[1]) THEN 0
      ELSE IF neg THEN -ParseDigits(body, 0) ELSE ParseDigits(body, 0)

RECURSIVE FormatNat(_)
FormatNat(n) ==
  IF n < 10 THEN <<Digits[n + 1]>>
  ELSE FormatNat(n \div 10) \o <<Digits[(n % 10) + 1]>>

\* a number written RAW into a cell is read back as its decimal text
FormatInt(n) == IF n < 0 THEN <<"-">> \o FormatNat(-n) ELSE FormatNat(n)

(***************************************************************************)
(* Calendar days (luxon DateTime in the zone TIMEZONE).                    *)
(***************************************************************************)
IsLeap(y) == (y % 4 = 0 /\ y % 100 # 0) \/ y % 400 = 0

DaysInMonth(y, m) ==
  IF m = 2 THEN (IF IsLeap(y) THEN 29 ELSE 28)
  ELSE IF m \in {4, 6, 9, 11} THEN 30 ELSE 31

\* plus({ days: 1 })
NextDay(dt) ==
  IF dt.d < DaysInMonth(dt.y, dt.m) THEN [dt EXCEPT !.d = dt.d + 1]
  ELSE IF dt.m < 12 THEN [dt EXCEPT !.m = dt.m + 1, !.d = 1]
  ELSE [dt EXCEPT !.y = dt.y + 1, !.m = 1, !.d = 1]

\* minus({ days: 1 })
PrevDay(dt) ==
  IF dt.d > 1 THEN [dt EXCEPT !.d = dt.d - 1]
  ELSE IF dt.m > 1 THEN [dt EXCEPT !.m = dt.m - 1, !.d = DaysInMonth(dt.y, dt.m - 1)]
  ELSE [dt EXCEPT !.y = dt.y - 1, !.m = 12, !.d = 31]

RECURSIVE minusDays(_, _)
minusDays(dt, i) == IF i = 0 THEN dt ELSE minusDays(PrevDay(dt), i - 1)

RECURSIVE plusDays(_, _)
plusDays(dt, i) == IF i = 0 THEN dt ELSE plusDays(NextDay(dt), i - 1)

startOfDay(dt) == [dt EXCEPT !.t = 0]

startOfMonth(dt) == [dt EXCEPT !.d = 1, !.t = 0]

\* day0.diff(start, 'days').days for two midnights of one month
diffDays(day0, start) == day0.d - start.d

\* toISODate: "2024-02-29" as the number 20240229
toISODate(dt) == dt.y * 10000 + dt.m * 100 + dt.d

\* toISO: the date followed by the time of day
toISO(dt) == toISODate(dt) * 10 + dt.t

\* the days are counted back from the day before
buildDateSeriesFromYesterday(now, dayCount) ==
  LET day0 == startOfDay(now)
      days == [k \in 1..dayCount |-> minusDays(day0, dayCount - k + 1)]
  IN  [k \in 1..dayCount |-> toISODate(days[k])]

buildDateSeries(now, dayCount) ==
  LET day0 == startOfDay(now)
      days == [k \in 1..dayCount |-> minusDays(day0, dayCount - k)]
  IN  [k \in 1..dayCount |-> toISODate(days[k])]

buildMonthSeries(now) ==
  LET start == startOfMonth(now)
      day0  == startOfDay(now)
      diff  == diffDays(day0, start)
      days  == [k \in 1..(diff + 1) |-> plusDays(start, k - 1)]
  IN  [k \in 1..(diff + 1) |-> toISODate(days[k])]

\* d.toFormat(labelFormat) of the days of a list: the format and the day
LabelsFor(dates, labelFormat) ==
  [k \in 1..Len(dates) |-> [format |-> labelFormat, date |-> dates[k]]]

SeriesFor(now, period) ==
  IF period = "week" THEN buildDateSeries(now, 7)
  ELSE IF period = "month" THEN buildMonthSeries(now)
  ELSE buildDateSeries(now, 3)

(***************************************************************************)
(* Aggregator.                                                             *)
(***************************************************************************)
Range(s) == {s[i] : i \in 1..Len(s)}

\* one turn of the loop of lines 350-355
AddEvent(totals, event) ==
  IF event.date \notin DOMAIN totals THEN totals
  ELSE LET kid == normalizeName(event.person)
           day == totals[event.date]
           cur == IF kid \in DOMAIN day THEN day[kid] ELSE 0
       IN  [totals EXCEPT ![event.date] = (kid :> (cur + event.delta)) @@ day]

RECURSIVE FoldEvents(_, _)
FoldEvents(totals, events) ==
  IF events = <<>> THEN totals
  ELSE FoldEvents(AddEvent(totals, events[1]), Tail(events))

buildTotals(events, dates, kids) ==
  FoldEvents([date \in Range(dates) |-> [kid \in Range(kids) |-> 0]], events)

\* totals[date][kid] || 0
TotalOf(totals, date, kid) ==
  IF date \in DOMAIN totals /\ kid \in DOMAIN totals[date] THEN totals[date][kid] ELSE 0

formatPoints(value) ==
  [minus |-> value < 0, abs |-> Abs(value),
   unit |-> IF Abs(value) = 1 THEN "point" ELSE "points"]

(***************************************************************************)
(* Trend payload.                                                          *)
(***************************************************************************)
\* null
Null == [isNull |-> TRUE]

\* Math.max(1, ...values.map(Math.abs)) of a set of numbers
MaxAbsOf(values) ==
  LET abs == {Abs(v) : v \in values} \cup {1}
  IN  CHOOSE m \in abs : \A a \in abs : a <= m

\* Numbers are IEEE 754 doubles: 53 significant bits, a result rounded to
\* the nearest double, to the even one of two equally near.  A positive
\* double is [m, exp], its value m * 2^exp; m, up to 2^53, is written in
\* digits of base 2^15, the first digit the highest and not 0.
MantissaBits == 53

DigitBits == 15

Base == 2^DigitBits

RECURSIVE BigOf(_)
BigOf(n) == IF n = 0 THEN <<>> ELSE BigOf(n \div Base) \o <<n % Base>>

RECURSIVE BigToInt(_)
BigToInt(x) ==
  IF x = <<>> THEN 0 ELSE BigToInt(SubSeq(x, 1, Len(x) - 1)) * Base + x[Len(x)]

RECURSIVE Strip(_)
Strip(x) == IF x # <<>> /\ x[1] = 0 THEN Strip(Tail(x)) ELSE x

\* x * k + carry, for k up to Base
RECURSIVE BigTimes(_, _, _)
BigTimes(x, k, carry) ==
  IF x = <<>> THEN BigOf(carry)
  ELSE BigTimes(SubSeq(x, 1, Len(x) - 1), k, (x[Len(x)] * k + carry) \div Base)
       \o <<(x[Len(x)] * k + carry) % Base>>

\* the digits of (r * Base^Len(x) + x) \div b, for r < b < 2^16
RECURSIVE BigQuot(_, _, _)
BigQuot(x, b, r) ==
  IF x = <<>> THEN <<>>
  ELSE <<(r * Base + x[1]) \div b>> \o BigQuot(Tail(x), b, (r * Base + x[1]) % b)

\* (r * Base^Len(x) + x) % b
RECURSIVE BigRem(_, _, _)
BigRem(x, b, r) ==
  IF x = <<>> THEN r ELSE BigRem(Tail(x), b, (r * Base + x[1]) % b)

\* x * 2^n
BigShiftLeft(x, n) ==
  BigTimes(x, 2^(n % DigitBits), 0) \o [i \in 1..(n \div DigitBits) |-> 0]

\* x \div 2^n
BigShiftRight(x, n) ==
  Strip(BigQuot(SubSeq(x, 1, Len(x) - (n \div DigitBits)), 2^(n % DigitBits), 0))

\* x % 2^n # 0
BigShiftRest(x, n) ==
  \/ BigRem(SubSeq(x, 1, Len(x) - (n \div DigitBits)), 2^(n % DigitBits), 0) # 0
  \/ \E i \in (Len(x) - (n \div DigitBits) + 1)..Len(x) : i >= 1 /\ x[i] # 0

RECURSIVE BitLength(_)
BitLength(n) == IF n = 0 THEN 0 ELSE 1 + BitLength(n \div 2)

\* the number of bits of x
BigBits(x) == IF x = <<>> THEN 0 ELSE (Len(x) - 1) * DigitBits + BitLength(x[1])

RECURSIVE BigPlusOne(_)
BigPlusOne(x) ==
  IF x = <<>> THEN <<1>>
  ELSE IF x[Len(x)] < Base - 1 THEN [x EXCEPT ![Len(x)] = @ + 1]
  ELSE BigPlusOne(SubSeq(x, 1, Len(x) - 1)) \o <<0>>

IsOdd(x) == x # <<>> /\ x[Len(x)] % 2 = 1

\* the nearest whole number to (x + f) / 2, where more says that the
\* fraction f is not 0: the even one of two equally near
RoundHalfEven(x, more) ==
  IF IsOdd(x) /\ (more \/ IsOdd(BigShiftRight(x, 1)))
    THEN BigPlusOne(BigShiftRight(x, 1))
    ELSE BigShiftRight(x, 1)

\* the least e with a * 2^e >= b, for 0 < a
RECURSIVE ShiftsTo(_, _)
ShiftsTo(a, b) == IF a >= b THEN 0 ELSE 1 + ShiftsTo(2 * a, b)

\* a / b of whole numbers 0 < a < b < 2^16: the quotient is taken to one
\* bit more than the mantissa holds and rounded
FloatDivide(a, b) ==
  [m   |-> RoundHalfEven(
             Strip(BigQuot(BigShiftLeft(BigOf(a), ShiftsTo(a, b) + MantissaBits), b, 0)),
             BigRem(BigShiftLeft(BigOf(a), ShiftsTo(a, b) + MantissaBits), b, 0) # 0),
   exp |-> 1 - ShiftsTo(a, b) - MantissaBits]

\* the double nearest to m * 2^exp
RoundToDouble(m, exp) ==
  IF BigBits(m) <= MantissaBits THEN [m |-> m, exp |-> exp]
  ELSE [m   |-> RoundHalfEven(BigShiftRight(m, BigBits(m) - MantissaBits - 1),
                              BigShiftRest(m, BigBits(m) - MantissaBits - 1)),
        exp |-> exp + BigBits(m) - MantissaBits]

\* x * k, k a whole number up to Base
FloatTimes(x, k) == RoundToDouble(BigTimes(x.m, k, 0), x.exp)

\* Math.round of a double below 2^30 that is not whole: the nearest whole
\* number, the upper one of two equally near
MathRound(x) == (BigToInt(BigShiftRight(x.m, -x.exp - 1)) + 1) \div 2

\* the height is cut off, not rounded
HeightFloor(value, maxAbs, scale) == (Abs(value) * scale) \div maxAbs

\* Math.round((Math.abs(value) / maxAbs) * scale).  Unless the exact
\* quotient lies midway between two whole numbers it is further than
\* 1 / (2 * maxAbs) from every such midpoint, the rounding of the two
\* operations moves it by less, and the result is the nearest whole number.
Height(value, maxAbs, scale) ==
  IF (2 * Abs(value) * scale) % (2 * maxAbs) # maxAbs
    THEN (2 * Abs(value) * scale + maxAbs) \div (2 * maxAbs)
    ELSE CHOOSE height \in {MathRound(FloatTimes(FloatDivide(a, maxAbs), scale)) :
                               a \in {Abs(value)}} : TRUE

\* Math.ceil(count / 5)
CeilFifth(count) == (count + 4) \div 5

\* lines 389-405: the width and spacing of the bars and the step of the labels
BarLayout(count) ==
  [barWidth   |-> IF count <= 3 THEN 18 ELSE IF count <= 7 THEN 12
                  ELSE IF count <= 14 THEN 8 ELSE 6,
   barSpacing |-> IF count <= 3 THEN 6 ELSE IF count <= 7 THEN 4
                  ELSE IF count <= 14 THEN 3 ELSE 2,
   labelStep  |-> IF count <= 7 THEN 1 ELSE CeilFifth(count)]

\* idx % labelStep === 0 || idx === count - 1, idx counted from 0
ShowLabel(k, count) == (k - 1) % BarLayout(count).labelStep = 0 \/ k = count

\* Math.max(4, Math.round(barWidth * 0.7))
SparkWidth(barWidth) == Max(4, (7 * barWidth + 5) \div 10)

RECURSIVE SumKids(_, _, _)
SumKids(totals, date, kids) ==
  IF kids = <<>> THEN 0
  ELSE TotalOf(totals, date, kids[1]) + SumKids(totals, date, Tail(kids))

\* the label '' of a bar whose label is not shown
NoLabel == [format |-> "", date |-> 0]

Bar(value, maxAbs, scale, label, shown, width) ==
  [value |-> value, height |-> Height(value, maxAbs, scale),
   color |-> IF value < 0 THEN "#D9480F" ELSE "#2F9E44",
   label |-> IF shown THEN label ELSE NoLabel, labelOpacity |-> IF shown THEN 1 ELSE 0,
   width |-> width]

\* summaryTotals is Null for "today": the totals of the last date stand in
buildTrendPayload(dates, labels, totals, kids, title, summaryLabel, summaryTotals, rangeLabel) ==
  LET count       == Len(dates)
      layout      == BarLayout(count)
      maxAbs      == MaxAbsOf({TotalOf(totals, dates[k], kids[i]) :
                                 k \in 1..count, i \in 1..Len(kids)})
      sparkMaxAbs == MaxAbsOf({SumKids(totals, dates[k], kids) : k \in 1..count})
      lastTotals  == IF count > 0 /\ dates[count] \in DOMAIN totals
                       THEN totals[dates[count]] ELSE <<>>
      summaryValues == IF summaryTotals = Null THEN lastTotals ELSE summaryTotals
      ValueOf(name) == IF name \in DOMAIN summaryValues THEN summaryValues[name] ELSE 0
  IN  [title |-> title, summaryLabel |-> summaryLabel,
       dateLabel |-> rangeLabel, barSpacing |-> layout.barSpacing,
       summary |-> [i \in 1..Len(kids) |->
                      [name |-> kids[i], value |-> ValueOf(kids[i]),
                       display |-> formatPoints(ValueOf(kids[i]))]],
       spark |-> [k \in 1..count |->
                    Bar(SumKids(totals, dates[k], kids), sparkMaxAbs, SPARK_MAX_HEIGHT,
                        labels[k], ShowLabel(k, count), SparkWidth(layout.barWidth))],
       people |-> [i \in 1..Len(kids) |->
                     [name |-> kids[i],
                      bars |-> [k \in 1..count |->
                                  Bar(TotalOf(totals, dates[k], kids[i]), maxAbs,
                                      MAX_BAR_HEIGHT, labels[k], ShowLabel(k, count),
                                      layout.barWidth)]]]]

(***************************************************************************)
(* State.                                                                  *)
(*   sheets               the spreadsheet: tab title -> [row1, rows], row1 *)
(*                        the header row (<<>> while blank), rows the rows *)
(*                        from row 2 on                                    *)
(*   sheetsClientPromise  the module-level cached promise: "null",         *)
(*                        "resolved" or "rejected"                         *)
(*   env                  the process settings SHEET_ID and SECRET_NAME    *)
(*   clock, ticks         DateTime.now() in TIMEZONE, and how often it has *)
(*                        advanced                                         *)
(*   served               the number of requests handled so far            *)
(*   last                 the last step: the request, the response and     *)
(*                        which calls on event rows it made                *)
(*   probe                inputs and result of the pure functions checked  *)
(*                        on their own                                     *)
(***************************************************************************)
VARIABLES sheets, sheetsClientPromise, env, clock, ticks, served, last, probe

vars == <<sheets, sheetsClientPromise, env, clock, ticks, served, last, probe>>

UserA == "amzn1.ask.account.A"
UserB == "amzn1.ask.account.B"
\* a request envelope without context.System.user.userId
NoUser == ""
Users == {UserA, UserB}

\* sha256(userId), hex, first 10 characters
hashUserId(userId) ==
  IF userId = UserA THEN "e5ccf3593f" ELSE IF userId = UserB THEN "efd649e795" ELSE "?"

buildFamilyTabName(userId) == <<EVENTS_TAB_PREFIX, hashUserId(userId)>>

(***************************************************************************)
(* One request runs as a chain of steps over a context: the spreadsheet,   *)
(* the cached promise, the external calls made so far, each with what the  *)
(* spreadsheet and the promise were when it was made, and err, set once an *)
(* exception is thrown; after that no step does anything.                  *)
(*                                                                         *)
(* A request that runs beside another one is run call by call.  seen holds *)
(* what the spreadsheet was at each of its external calls so far: call n   *)
(* acts on seen[n], and the request is parked where it makes a call beyond *)
(* limit, the length of seen.  A request that runs alone has limit -1.     *)
(***************************************************************************)
NewCtx ==
  [sheets |-> sheets, client |-> sheetsClientPromise, calls |-> <<>>, err |-> FALSE,
   seen |-> <<>>, limit |-> -1, parked |-> FALSE]

Throw(ctx) == [ctx EXCEPT !.err = TRUE]

\* an awaited call to a collaborator
External(ctx, op, tab) ==
  IF ctx.err THEN ctx
  ELSE IF ctx.limit < 0
    THEN [ctx EXCEPT !.calls = Append(@, [op |-> op, tab |-> tab,
                                          sheets |-> ctx.sheets, client |-> ctx.client])]
  ELSE IF Len(ctx.calls) >= ctx.limit
    THEN [ctx EXCEPT !.err = TRUE, !.parked = TRUE]
  ELSE [ctx EXCEPT !.sheets = ctx.seen[Len(ctx.calls) + 1],
                   !.calls = Append(@, [op |-> op, tab |-> tab,
                                        sheets |-> ctx.seen[Len(ctx.calls) + 1],
                                        client |-> ctx.client])]

\* const x = await f(...): the call is made once, and what follows is applied
\* to its result
Await(result, Then(_)) == CHOOSE out \in {Then(r) : r \in {result}} : TRUE

getSheetsClient(ctx) ==
  IF ctx.err THEN ctx
  ELSE IF ctx.client = "null"
    THEN Await(External(ctx, "getSecretValue", <<>>),
               LAMBDA c : [c EXCEPT !.client = "resolved"])
  ELSE IF ctx.client = "rejected" THEN Throw(ctx)
  ELSE ctx

\* a Sheets API call: failing when the tab it names does not exist
SheetsCall(ctx, op, tab) ==
  Await(External(getSheetsClient(ctx), op, tab),
        LAMBDA c :
          IF ~c.err /\ op \notin {"spreadsheets.get", "addSheet"} /\ tab \notin DOMAIN c.sheets
            THEN Throw(c) ELSE c)

getSheetNames(ctx) == SheetsCall(ctx, "spreadsheets.get", <<>>)

\* batchUpdate addSheet: a blank tab of that title; the API rejects the
\* title of a tab that is there
addSheet(ctx, sheetName) ==
  Await(SheetsCall(ctx, "addSheet", sheetName),
        LAMBDA c2 :
          IF c2.err THEN c2
          ELSE IF sheetName \in DOMAIN c2.sheets THEN Throw(c2)
          ELSE [c2 EXCEPT !.sheets = (sheetName :> [row1 |-> <<>>, rows |-> <<>>]) @@ @])

\* a tab that is there is replaced by a blank tab of its title
ensureSheetExistsAnew(ctx, sheetName) ==
  Await(SheetsCall(getSheetNames(ctx), "addSheet", sheetName),
        LAMBDA c2 :
          IF c2.err THEN c2
          ELSE [c2 EXCEPT !.sheets = (sheetName :> [row1 |-> <<>>, rows |-> <<>>]) @@ @])

ensureSheetExists(ctx, sheetName) ==
  Await(getSheetNames(ctx),
        LAMBDA c1 :
          IF c1.err \/ sheetName \in DOMAIN c1.sheets THEN c1
          ELSE addSheet(c1, sheetName))

\* values.update of row 1
writeHeader(ctx, sheetName, header) ==
  Await(SheetsCall(ctx, "values.update A1", sheetName),
        LAMBDA c2 : IF c2.err THEN c2 ELSE [c2 EXCEPT !.sheets[sheetName].row1 = header])

ensureHeaderRow(ctx, sheetName, header) ==
  Await(SheetsCall(ctx, "values.get A1:Z1", sheetName),
        LAMBDA c1 :
          IF c1.err \/ c1.sheets[sheetName].row1 # <<>> THEN c1
          ELSE writeHeader(c1, sheetName, header))

ensureFamiliesSheet(ctx) ==
  ensureHeaderRow(ensureSheetExists(ctx, FAMILIES_TAB), FAMILIES_TAB, FAMILIES_HEADER)

ensureEventsSheet(ctx, tabName) ==
  ensureHeaderRow(ensureSheetExists(ctx, tabName), tabName, EVENTS_HEADER)

\* the context after readFamilies; its result is FamilyRows of that context
readFamilies(ctx) ==
  SheetsCall(ensureFamiliesSheet(ctx), "values.get A2:E", FAMILIES_TAB)

FamilyRows(ctx) ==
  LET rows == ctx.sheets[FAMILIES_TAB].rows
  IN  [idx \in 1..Len(rows) |->
         [rowIndex |-> idx + 1, userId |-> rows[idx].user_id,
          tabName |-> rows[idx].tab_name, kids |-> rows[idx].kids,
          createdAt |-> rows[idx].created_at, updatedAt |-> rows[idx].updated_at]]

\* families.find((f) => f.userId === userId) and the config built of the row:
\* userId, rowIndex, tabName and kids and no other field of the row
ConfigOf(families, userId) ==
  LET hits == {i \in 1..Len(families) : families[i].userId = userId}
  IN  IF hits = {} THEN Null
      ELSE Await(families[CHOOSE i \in hits : \A j \in hits : i <= j],
                 LAMBDA row : [isNull |-> FALSE, userId |-> userId,
                               rowIndex |-> row.rowIndex,
                               tabName |-> row.tabName,
                               kids |-> parseKidsList(row.kids)])

\* getFamilyConfig: [ctx, config]
getFamilyConfig(ctx, userId) ==
  IF userId = NoUser THEN [ctx |-> ctx, config |-> Null]
  ELSE Await(readFamilies(ctx),
             LAMBDA c :
               IF c.err THEN [ctx |-> c, config |-> Null]
               ELSE [ctx |-> c, config |-> ConfigOf(FamilyRows(c), userId)])

\* the events tab name saveFamilyConfig resolves: existingRow?.tabName || ...
TabNameFor(userId, existingRow) ==
  IF ~existingRow.isNull /\ existingRow.tabName # <<>>
    THEN existingRow.tabName ELSE buildFamilyTabName(userId)

\* hashUserId throws on an absent user id
TabNameThrows(userId, existingRow) ==
  (existingRow.isNull \/ existingRow.tabName = <<>>) /\ userId = NoUser

\* lines 181-183: both tabs are there with their header rows
ensureBothSheets(ctx, userId, existingRow) ==
  Await(ensureFamiliesSheet(ctx),
        LAMBDA c1 :
          IF TabNameThrows(userId, existingRow) THEN Throw(c1)
          ELSE ensureEventsSheet(c1, TabNameFor(userId, existingRow)))

\* lines 197-205: values.append of a new row
appendFamily(ctx, userId, tabName, kidsValue, now) ==
  Await(SheetsCall(ctx, "values.append A:E", FAMILIES_TAB),
        LAMBDA c4 :
          IF c4.err THEN c4
          ELSE [c4 EXCEPT !.sheets[FAMILIES_TAB].rows =
                  Append(@, [user_id |-> userId, tab_name |-> tabName,
                             kids |-> kidsValue,
                             created_at |-> now, updated_at |-> now])])

\* lines 190-195: values.update of C:E of the row; existingRow.createdAt is
\* read from the config getFamilyConfig built
updateFamily(ctx, existingRow, kidsValue, now) ==
  Await(SheetsCall(ctx, "values.update C:E", FAMILIES_TAB),
        LAMBDA c3 :
          IF c3.err THEN c3
          ELSE [c3 EXCEPT !.sheets[FAMILIES_TAB].rows[existingRow.rowIndex - 1] =
                  [@ EXCEPT !.kids = kidsValue,
                            !.created_at = IF "createdAt" \in DOMAIN existingRow
                                                /\ existingRow.createdAt # 0
                                             THEN existingRow.createdAt ELSE now,
                            !.updated_at = now]])

\* a row is appended whether or not the user has one
saveFamilyConfigDupRow(ctx, userId, kids, existingRow, now) ==
  appendFamily(ensureBothSheets(ctx, userId, existingRow), userId,
               TabNameFor(userId, existingRow), Join(kids), now)

\* saveFamilyConfig; now is the DateTime.now() of line 186 as toISO gives it
saveFamilyConfig(ctx, userId, kids, existingRow, now) ==
  IF ~existingRow.isNull
    THEN updateFamily(ensureBothSheets(ctx, userId, existingRow), existingRow,
                      Join(kids), now)
    ELSE appendFamily(ensureBothSheets(ctx, userId, existingRow), userId,
                      TabNameFor(userId, existingRow), Join(kids), now)

\* the cells of the row of an event
EventRow(event) ==
  [timestamp_iso |-> event.timestamp_iso, date |-> event.date,
   person |-> event.person, delta |-> FormatInt(event.delta),
   who |-> event.who, note |-> event.note]

\* the row is written over the last row of the tab
appendEventOverLast(ctx, event, tabName) ==
  Await(SheetsCall(ctx, "values.append A:F", tabName),
        LAMBDA c :
          IF c.err THEN c
          ELSE [c EXCEPT !.sheets[tabName].rows =
                  IF @ = <<>> THEN <<EventRow(event)>>
                  ELSE [@ EXCEPT ![Len(@)] = EventRow(event)]])

\* the rows the request saw at its first call are written back with the
\* new row behind them
appendEventWriteBack(ctx, event, tabName) ==
  Await(SheetsCall(ctx, "values.append A:F", tabName),
        LAMBDA c :
          IF c.err THEN c
          ELSE [c EXCEPT !.sheets[tabName].rows =
                  Append(IF c.limit > 0 THEN c.seen[1][tabName].rows ELSE @,
                         EventRow(event))])

appendEvent(ctx, event, tabName) ==
  Await(SheetsCall(ctx, "values.append A:F", tabName),
        LAMBDA c :
          IF c.err THEN c
          ELSE [c EXCEPT !.sheets[tabName].rows = Append(@, EventRow(event))])

RECURSIVE SelectRows(_)
SelectRows(rows) ==
  IF rows = <<>> THEN <<>>
  ELSE IF rows[1].date # 0 /\ rows[1].person # <<>>
    THEN <<rows[1]>> \o SelectRows(Tail(rows))
  ELSE SelectRows(Tail(rows))

\* the context after readEvents; its result is EventRows of that context
readEvents(ctx, tabName) == SheetsCall(ctx, "values.get A2:F", tabName)

EventRows(ctx, tabName) ==
  LET rows == ctx.sheets[tabName].rows
  IN  SelectRows([i \in 1..Len(rows) |->
         [timestamp_iso |-> rows[i].timestamp_iso, date |-> rows[i].date,
          person |-> rows[i].person, delta |-> toInt(rows[i].delta),
          who |-> rows[i].who, note |-> rows[i].note]])

\* lines 521-540: the texts that go with the period
PeriodWording(now, period) ==
  IF period = "week"
    THEN [labelFormat |-> "EEE", title |-> "Last 7 Days", summaryLabel |-> "This Week",
          rangeLabel |-> [format |-> "MMM d-MMM d",
                          date |-> <<toISODate(minusDays(now, 6)), toISODate(now)>>]]
  ELSE IF period = "month"
    THEN [labelFormat |-> "d", title |-> "This Month", summaryLabel |-> "This Month",
          rangeLabel |-> [format |-> "MMMM yyyy", date |-> now.y * 100 + now.m]]
  ELSE [labelFormat |-> "MMM d", title |-> "Last 3 Days", summaryLabel |-> "Today",
        rangeLabel |-> [format |-> "MMM d", date |-> toISODate(now)]]

\* buildSummaryData: [ctx, now, dates, labels, totals, title, summaryLabel,
\* rangeLabel]; now is the clock it reads
buildSummaryData(ctx, tabName, kids, period, now) ==
  Await(readEvents(ctx, tabName),
        LAMBDA c :
          [ctx |-> c, now |-> now, dates |-> SeriesFor(now, period),
           labels |-> LabelsFor(SeriesFor(now, period), PeriodWording(now, period).labelFormat),
           totals |-> IF c.err THEN <<>>
                      ELSE buildTotals(EventRows(c, tabName), SeriesFor(now, period), kids),
           title |-> PeriodWording(now, period).title,
           summaryLabel |-> PeriodWording(now, period).summaryLabel,
           rangeLabel |-> PeriodWording(now, period).rangeLabel])

RECURSIVE SumOver(_, _, _)
SumOver(totals, dates, kid) ==
  IF dates = <<>> THEN 0
  ELSE TotalOf(totals, dates[1], kid) + SumOver(totals, Tail(dates), kid)

\* the first date of the window is left out of the sum
aggregateTotalsSkipFirst(totals, dates, kids) ==
  [kid \in Range(kids) |-> SumOver(totals, IF dates = <<>> THEN dates ELSE Tail(dates), kid)]

aggregateTotals(totals, dates, kids) ==
  [kid \in Range(kids) |-> SumOver(totals, dates, kid)]

parseSummaryPeriod(raw) ==
  IF raw = <<>> THEN "today"
  ELSE IF includes(toLowerCase(raw), <<"week">>) THEN "week"
  ELSE IF includes(toLowerCase(raw), <<"month">>) THEN "month"
  ELSE "today"

\* buildSummarySpeech: the period and, kid by kid, the points spoken
buildSummarySpeech(period, now, kids, totals, dates) ==
  [period |-> period,
   parts |-> [i \in 1..Len(kids) |->
      [kid |-> kids[i],
       has |-> formatPoints(
                 IF period \in {"week", "month"}
                   THEN aggregateTotals(totals, dates, kids)[kids[i]]
                   ELSE TotalOf(totals, toISODate(now), kids[i]))]]]

\* a trailing "'s" stays in the text that is compared
normalizeKidNameKeepsPossessive(raw, kids) ==
  IF raw = <<>> THEN <<>>
  ELSE LET cleaned == trim(toLowerCase(raw))
           hits    == {i \in 1..Len(kids) : toLowerCase(kids[i]) = cleaned}
       IN  IF hits = {} THEN <<>> ELSE kids[CHOOSE i \in hits : \A j \in hits : i <= j]

normalizeKidName(raw, kids) ==
  IF raw = <<>> THEN <<>>
  ELSE LET lower   == toLowerCase(raw)
           cleaned == trim(IF lower[Len(lower)] = "'s"
                             THEN SubSeq(lower, 1, Len(lower) - 1) ELSE lower)
           hits    == {i \in 1..Len(kids) : toLowerCase(kids[i]) = cleaned}
       IN  IF hits = {} THEN <<>> ELSE kids[CHOOSE i \in hits : \A j \in hits : i <= j]

negativeWords ==
  { <<"reduce">>, <<"remove">>, <<"minus">>, <<"subtract">>, <<"deduct">>,
    <<"take", " ", "away">>, <<"takeaway">> }

AdjustDeltaNoFloor(rawDirection, rawDelta) ==
  LET direction  == IF rawDirection # <<>> THEN toLowerCase(rawDirection) ELSE <<"add">>
      amount     == Abs(toInt(IF rawDelta # <<>> THEN rawDelta ELSE <<"1">>))
      isNegative == \E word \in negativeWords : includes(direction, word)
  IN  IF isNegative THEN -amount ELSE amount

\* lines 736-750 of AdjustPointsIntentHandler.handle: the signed delta
AdjustDelta(rawDirection, rawDelta) ==
  LET direction  == IF rawDirection # <<>> THEN toLowerCase(rawDirection) ELSE <<"add">>
      amount     == Max(1, Abs(toInt(IF rawDelta # <<>> THEN rawDelta ELSE <<"1">>)))
      isNegative == \E word \in negativeWords : includes(direction, word)
  IN  IF isNegative THEN -amount ELSE amount

(***************************************************************************)
(* Request handlers.  Each gives [ctx, resp]: the context after its last   *)
(* step and the response; a thrown exception is answered by ErrorHandler.  *)
(***************************************************************************)
Apology == [type |-> "apology"]

\* nothing is looked at
ensureConfigOff(ctx) == ctx

\* ensureConfig
ensureConfig(ctx) ==
  IF env.SHEET_ID = "" \/ env.SECRET_NAME = "" THEN Throw(ctx) ELSE ctx

\* ErrorHandler.handle answers whatever a handler threw
Respond(ctx, resp) == [ctx |-> ctx, resp |-> IF ctx.err THEN Apology ELSE resp]

promptForKids == [type |-> "promptForKids", reprompt |-> TRUE]

\* the RenderDocument directive, added when the device supports APL;
\* summaryTotals is Null where the handler passes null
TrendDirective(apl, d, kids, summaryTotals) ==
  IF ~apl THEN Null
  ELSE [isNull |-> FALSE, type |-> "Alexa.Presentation.APL.RenderDocument",
        token |-> "trend",
        payload |-> buildTrendPayload(d.dates, d.labels, d.totals, kids, d.title,
                                      d.summaryLabel, summaryTotals, d.rangeLabel)]

\* lines 635-667: the reply of a launch, the summary of today
LaunchReply(d, kids, apl) ==
  IF d.ctx.err THEN Respond(d.ctx, Apology)
  ELSE Respond(d.ctx,
         [type |-> "summary", reprompt |-> TRUE,
          speech |-> buildSummarySpeech("today", d.now, kids, d.totals, d.dates),
          directive |-> TrendDirective(apl, d, kids, Null)])

\* lines 819-855: the reply with the summary of a period
SummaryReply(d, period, kids, apl) ==
  IF d.ctx.err THEN Respond(d.ctx, Apology)
  ELSE Respond(d.ctx,
         [type |-> "summary", reprompt |-> TRUE,
          speech |-> buildSummarySpeech(period, d.now, kids, d.totals, d.dates),
          directive |-> TrendDirective(apl, d, kids,
                          IF period = "today" THEN Null
                          ELSE aggregateTotals(d.totals, d.dates, kids))])

\* the kid list is not looked at before the summary is built
LaunchRequestHandlerNoGate(ctx, userId, now, apl) ==
  Await(getFamilyConfig(ensureConfig(ctx), userId),
        LAMBDA g :
          IF g.ctx.err THEN Respond(g.ctx, Apology)
          ELSE IF g.config.isNull THEN Respond(g.ctx, promptForKids)
          ELSE Await(buildSummaryData(g.ctx, g.config.tabName, g.config.kids, "today", now),
                     LAMBDA d : LaunchReply(d, g.config.kids, apl)))

LaunchRequestHandler(ctx, userId, now, apl) ==
  Await(getFamilyConfig(ensureConfig(ctx), userId),
        LAMBDA g :
          IF g.ctx.err THEN Respond(g.ctx, Apology)
          ELSE IF g.config.isNull \/ g.config.kids = <<>> THEN Respond(g.ctx, promptForKids)
          ELSE Await(buildSummaryData(g.ctx, g.config.tabName, g.config.kids, "today", now),
                     LAMBDA d : LaunchReply(d, g.config.kids, apl)))

\* lines 691-704: the config is read, saved and confirmed
SaveAndConfirm(ctx, userId, kids, now) ==
  Await(getFamilyConfig(ctx, userId),
        LAMBDA g :
          IF g.ctx.err THEN Respond(g.ctx, Apology)
          ELSE Respond(saveFamilyConfig(g.ctx, userId, kids, g.config, toISO(now)),
                       [type |-> "configured", reprompt |-> TRUE, kids |-> kids]))

ConfigureKidsIntentHandler(ctx, userId, rawKids, now) ==
  Await(ensureConfig(ctx),
        LAMBDA c0 :
          IF c0.err THEN Respond(c0, Apology)
          ELSE Await(parseKidsInput(rawKids),
                     LAMBDA kids :
                       IF kids = <<>>
                         THEN Respond(c0, [type |-> "noNames", reprompt |-> TRUE])
                         ELSE SaveAndConfirm(c0, userId, kids, now)))

\* lines 753-760: the event of the request
EventOf(person, delta, now) ==
  [timestamp_iso |-> toISO(now), date |-> toISODate(now),
   person |-> person, delta |-> delta, who |-> "Parent",
   note |-> [verb |-> IF delta > 0 THEN "Added" ELSE "Reduced", amount |-> Abs(delta)]]

\* lines 764-796: the reply with the person's total of today
AdjustedReply(d, kids, person, delta, apl) ==
  IF d.ctx.err THEN Respond(d.ctx, Apology)
  ELSE Respond(d.ctx,
         [type |-> "adjusted", reprompt |-> TRUE,
          actionText |-> IF delta > 0 THEN "added" ELSE "reduced",
          amount |-> Abs(delta), person |-> person,
          has |-> formatPoints(TotalOf(d.totals, toISODate(d.now), person)),
          directive |-> TrendDirective(apl, d, kids, Null)])

\* lines 736-796: the event is appended, then the log is read again
AppendAndReport(ctx, config, person, delta, now1, now2, apl) ==
  Await(buildSummaryData(appendEvent(ctx, EventOf(person, delta, now1), config.tabName),
                         config.tabName, config.kids, "today", now2),
        LAMBDA d : AdjustedReply(d, config.kids, person, delta, apl))

\* a person that matches no kid is taken to be the first kid
MatchAndAdjustFirstKid(ctx, config, person, rawDirection, rawDelta, now1, now2, apl) ==
  Await(AdjustDelta(rawDirection, rawDelta),
        LAMBDA delta : AppendAndReport(ctx, config,
                                       IF person = <<>> THEN config.kids[1] ELSE person,
                                       delta, now1, now2, apl))

\* lines 722-734: the person slot is matched against the kids
MatchAndAdjust(ctx, config, person, rawDirection, rawDelta, now1, now2, apl) ==
  IF person = <<>>
    THEN Respond(ctx, [type |-> "whichChild", reprompt |-> TRUE, kids |-> config.kids])
    ELSE Await(AdjustDelta(rawDirection, rawDelta),
               LAMBDA delta : AppendAndReport(ctx, config, person, delta, now1, now2, apl))

\* now1 is the clock read for the event, now2 the one buildSummaryData reads
AdjustPointsIntentHandler(ctx, userId, rawPerson, rawDirection, rawDelta, now1, now2, apl) ==
  Await(getFamilyConfig(ensureConfig(ctx), userId),
        LAMBDA g :
          IF g.ctx.err THEN Respond(g.ctx, Apology)
          ELSE IF g.config.isNull \/ g.config.kids = <<>> THEN Respond(g.ctx, promptForKids)
          ELSE Await(normalizeKidName(rawPerson, g.config.kids),
                     LAMBDA person : MatchAndAdjust(g.ctx, g.config, person, rawDirection,
                                                    rawDelta, now1, now2, apl)))

SummaryIntentHandler(ctx, userId, rawPeriod, now, apl) ==
  Await(getFamilyConfig(ensureConfig(ctx), userId),
        LAMBDA g :
          IF g.ctx.err THEN Respond(g.ctx, Apology)
          ELSE IF g.config.isNull \/ g.config.kids = <<>> THEN Respond(g.ctx, promptForKids)
          ELSE Await(buildSummaryData(g.ctx, g.config.tabName, g.config.kids,
                                      parseSummaryPeriod(rawPeriod), now),
                     LAMBDA d : SummaryReply(d, parseSummaryPeriod(rawPeriod),
                                             g.config.kids, apl)))

(***************************************************************************)
(* Inputs of the requests.                                                 *)
(***************************************************************************)
KidsTexts ==
  { <<>>,
    <<" ", ",", " ">>,
    <<"Anna", ",", " ", "Ben", " ", "and", " ", "Ben">>,
    <<"krish", " ", "&", " ", "ANNA">> }

\* the person, direction and delta slots of "add a point for Krish", of
\* "reduce two points for Anna's", of a name no family has and of no name
Utterances ==
  { [person |-> <<"Krish">>, direction |-> <<>>, delta |-> <<>>],
    [person |-> <<"anna", "'s">>, direction |-> <<"Reduce">>, delta |-> <<"2">>],
    [person |-> <<"zoe">>, direction |-> <<"add">>, delta |-> <<"1">>],
    [person |-> <<>>, direction |-> <<>>, delta |-> <<>>] }

PeriodTexts == { <<>>, <<"this", " ", "week">>, <<"MONTH">> }

\* the users whose device reports the interface Alexa.Presentation.APL
ScreenUsers == {UserA}

StartClocks == { [y |-> 2023, m |-> 12, d |-> 31, t |-> 1] }

\* the clock one slot later: the second half of the day, then the next midnight
TickClock(now) ==
  IF now.t = 0 THEN [now EXCEPT !.t = 1] ELSE [NextDay(now) EXCEPT !.t = 0]

(***************************************************************************)
(* The spreadsheet persists across processes.  A process starts on a new   *)
(* spreadsheet, on one where a family is set up and has an event, or on    *)
(* one where the kids cell of that family was cleared by hand.             *)
(***************************************************************************)
FreshSheet == (<<"Sheet1">> :> [row1 |-> <<>>, rows |-> <<>>])

FamilyRowB(kids) ==
  [user_id |-> UserB, tab_name |-> buildFamilyTabName(UserB), kids |-> kids,
   created_at |-> 202312300, updated_at |-> 202312300]

EarlierEvent ==
  [timestamp_iso |-> 202312311, date |-> 20231231, person |-> <<"Anna">>,
   delta |-> <<"1">>, who |-> "Parent", note |-> [verb |-> "Added", amount |-> 1]]

SetUpSheet ==
  (FAMILIES_TAB :> [row1 |-> FAMILIES_HEADER,
                    rows |-> <<FamilyRowB(<<"Anna", ",", " ", "Ben">>)>>])
  @@ (buildFamilyTabName(UserB) :> [row1 |-> EVENTS_HEADER, rows |-> <<EarlierEvent>>])
  @@ FreshSheet

ClearedSheet ==
  [SetUpSheet EXCEPT ![FAMILIES_TAB].rows = <<FamilyRowB(<<>>)>>]

GoodEnv == [SHEET_ID |-> "sheet-1", SECRET_NAME |-> "secret-1"]

NoStep ==
  [req |-> [type |-> "none"], resp |-> [type |-> "none"], eventCalls |-> {}]

NoProbe == [op |-> "none"]

Init ==
  /\ \/ sheets \in {FreshSheet, SetUpSheet, ClearedSheet} /\ env = GoodEnv
     \/ sheets = SetUpSheet
        /\ env \in {[GoodEnv EXCEPT !.SHEET_ID = ""], [GoodEnv EXCEPT !.SECRET_NAME = ""]}
  /\ sheetsClientPromise = "null"
  /\ clock \in StartClocks
  /\ ticks = 0
  /\ served = 0
  /\ last = NoStep
  /\ probe = NoProbe

\* the calls of a request that read or append event rows
EventCalls(calls) ==
  {calls[i].op : i \in {k \in 1..Len(calls) :
                          calls[k].op \in {"values.get A2:F", "values.append A:F"}}}

\* the call that rejected is made once more
RejectedRetried(run, k) ==
  [ctx  |-> [run.ctx EXCEPT
               !.sheets = run.ctx.calls[k].sheets,
               !.client = IF run.ctx.calls[k].op = "getSecretValue" THEN "rejected"
                          ELSE run.ctx.calls[k].client,
               !.calls  = Append(SubSeq(run.ctx.calls, 1, k), run.ctx.calls[k]),
               !.err    = TRUE],
   resp |-> Apology,
   failed |-> k]

\* the request in which external call k rejects, run being the request in
\* which no call rejects: the calls before it are made and have their
\* effect, the exception goes up through every await to ErrorHandler, and
\* a promise of the client that was being resolved stays cached, rejected
Rejected(run, k) ==
  [ctx  |-> [run.ctx EXCEPT
               !.sheets = run.ctx.calls[k].sheets,
               !.client = IF run.ctx.calls[k].op = "getSecretValue" THEN "rejected"
                          ELSE run.ctx.calls[k].client,
               !.calls  = SubSeq(run.ctx.calls, 1, k),
               !.err    = TRUE],
   resp |-> Apology,
   failed |-> k]

\* a request in which no external call rejects (failed is 0) or in which
\* one does
Outcomes(run) ==
  {[ctx |-> run.ctx, resp |-> run.resp, failed |-> 0]}
    \cup {Rejected(run, k) : k \in 1..Len(run.ctx.calls)}

\* what a finished request leaves behind
Commit(r, req) ==
  /\ served < MaxRequests
  /\ served' = served + 1
  /\ sheets' = r.ctx.sheets
  /\ sheetsClientPromise' = r.ctx.client
  /\ last' = [req |-> req, resp |-> r.resp, eventCalls |-> EventCalls(r.ctx.calls)]
  /\ UNCHANGED <<env, probe>>

Launch ==
  \E userId \in Users \cup {NoUser} :
    \E r \in Outcomes(LaunchRequestHandler(NewCtx, userId, clock, userId \in ScreenUsers)) :
      /\ Commit(r, [type |-> "LaunchRequest", userId |-> userId,
                    apl |-> userId \in ScreenUsers])
      /\ UNCHANGED <<clock, ticks>>

ConfigureKids ==
  \E userId \in Users \cup {NoUser}, rawKids \in KidsTexts :
    \E r \in Outcomes(ConfigureKidsIntentHandler(NewCtx, userId, rawKids, clock)) :
      /\ Commit(r, [type |-> "ConfigureKidsIntent", userId |-> userId, kids |-> rawKids])
      /\ UNCHANGED <<clock, ticks>>

\* adv: the clock advances between the handler's two readings of it
AdjustPoints ==
  \E userId \in Users \cup {NoUser}, said \in Utterances, adv \in 0..1 :
    LET now2 == IF adv = 1 THEN TickClock(clock) ELSE clock
    IN  /\ ticks + adv <= MaxTicks
        /\ \E r \in Outcomes(AdjustPointsIntentHandler(NewCtx, userId, said.person,
                               said.direction, said.delta, clock, now2,
                               userId \in ScreenUsers)) :
             /\ adv = 1 => r.resp.type = "adjusted"
             /\ Commit(r, [type |-> "AdjustPointsIntent", userId |-> userId,
                           person |-> said.person, direction |-> said.direction,
                           delta |-> said.delta, now1 |-> clock, now2 |-> now2,
                           apl |-> userId \in ScreenUsers])
             /\ clock' = now2
             /\ ticks' = ticks + adv

Summary ==
  \E userId \in Users \cup {NoUser}, rawPeriod \in PeriodTexts :
    \E r \in Outcomes(SummaryIntentHandler(NewCtx, userId, rawPeriod, clock,
                                           userId \in ScreenUsers)) :
      /\ Commit(r, [type |-> "SummaryIntent", userId |-> userId, period |-> rawPeriod,
                    apl |-> userId \in ScreenUsers])
      /\ UNCHANGED <<clock, ticks>>

\* time passes between two requests
Tick ==
  /\ ticks < MaxTicks
  /\ clock' = TickClock(clock)
  /\ ticks' = ticks + 1
  /\ last' = [NoStep EXCEPT !.req = [type |-> "Tick"]]
  /\ UNCHANGED <<sheets, sheetsClientPromise, env, served, probe>>

\* the execution context is replaced: module state starts over
ColdStart ==
  /\ sheetsClientPromise # "null"
  /\ sheetsClientPromise' = "null"
  /\ last' = [NoStep EXCEPT !.req = [type |-> "ColdStart"]]
  /\ UNCHANGED <<sheets, env, clock, ticks, served, probe>>

Next == Launch \/ ConfigureKids \/ AdjustPoints \/ Summary \/ Tick \/ ColdStart

Spec == Init /\ [][Next]_vars

(***************************************************************************)
(* Vocabulary of the properties.                                           *)
(***************************************************************************)
IsRequest(step, type) == step.req.type = type

FamilyRowsOf(sh, userId) ==
  IF FAMILIES_TAB \in DOMAIN sh
    THEN {i \in 1..Len(sh[FAMILIES_TAB].rows) : sh[FAMILIES_TAB].rows[i].user_id = userId}
    ELSE {}

HasRow(sh, userId) == userId # NoUser /\ FamilyRowsOf(sh, userId) # {}

\* the Families row a lookup by user id finds: the first one
RowOf(sh, userId) ==
  sh[FAMILIES_TAB].rows[CHOOSE i \in FamilyRowsOf(sh, userId) :
                           \A j \in FamilyRowsOf(sh, userId) : i <= j]

KidsOf(sh, userId) ==
  IF HasRow(sh, userId) THEN parseKidsList(RowOf(sh, userId).kids) ELSE <<>>

IsConfigured(sh, userId) == KidsOf(sh, userId) # <<>>

EventTabs(sh) == DOMAIN sh \ {FAMILIES_TAB}

IsPrefix(a, b) == Len(a) <= Len(b) /\ SubSeq(b, 1, Len(a)) = a

\* the tabs whose event rows a step changed
Grown(sh, sh2) ==
  {tab \in EventTabs(sh2) :
     IF tab \in DOMAIN sh THEN sh2[tab].rows # sh[tab].rows ELSE sh2[tab].rows # <<>>}

\* C1: the event log is append-only.  No step changes, removes or reorders an
\* event row already in a tab; a step that adds event rows is an AdjustPoints
\* request of a configured family naming one of its kids, and it adds one row,
\* for that kid, at the end of that family's tab; such a request that is
\* answered with the new total has added its row.
C1_AppendOnly ==
  [][ /\ \A tab \in EventTabs(sheets) :
           tab \in DOMAIN sheets' /\ IsPrefix(sheets[tab].rows, sheets'[tab].rows)
      /\ Grown(sheets, sheets') # {} =>
           /\ IsRequest(last', "AdjustPointsIntent")
           /\ IsConfigured(sheets, last'.req.userId)
           /\ LET kid == normalizeKidName(last'.req.person, KidsOf(sheets, last'.req.userId))
                  tab == RowOf(sheets, last'.req.userId).tab_name
              IN  /\ kid # <<>>
                  /\ Grown(sheets, sheets') = {tab}
                  /\ tab \in DOMAIN sheets
                  /\ Len(sheets'[tab].rows) = Len(sheets[tab].rows) + 1
                  /\ sheets'[tab].rows[Len(sheets'[tab].rows)].person = kid
      /\ (IsRequest(last', "AdjustPointsIntent") /\ last'.resp.type = "adjusted") =>
           Cardinality(Grown(sheets, sheets')) = 1
    ]_vars

\* two events in one tab, the second one appended by the last request
C1_Witness ==
  /\ IsRequest(last, "AdjustPointsIntent")
  /\ last.resp.type = "adjusted"
  /\ last.req.userId = UserB
  /\ Len(sheets[buildFamilyTabName(UserB)].rows) = 2
  /\ sheets[buildFamilyTabName(UserB)].rows[1] = EarlierEvent

\* the sum of the deltas of the rows of a tab with a date and a kid
RECURSIVE SumRows(_, _, _)
SumRows(rows, date, kid) ==
  IF rows = <<>> THEN 0
  ELSE (IF rows[1].date = date /\ normalizeName(rows[1].person) = kid
          THEN toInt(rows[1].delta) ELSE 0) + SumRows(Tail(rows), date, kid)

\* C2: an AdjustPoints request of a configured family that names one of its
\* kids speaks, as that kid's total of today, the kid's total of the day of the
\* request before the request plus the signed delta of the request.
C2_SpokenTotal ==
  [][ (IsRequest(last', "AdjustPointsIntent") /\ last'.resp.type = "adjusted") =>
        LET userId == last'.req.userId
            tab    == RowOf(sheets, userId).tab_name
            kid    == normalizeKidName(last'.req.person, KidsOf(sheets, userId))
            before == SumRows(sheets[tab].rows, toISODate(last'.req.now1), kid)
            delta  == AdjustDelta(last'.req.direction, last'.req.delta)
        IN  /\ IsConfigured(sheets, userId)
            /\ last'.resp.person = kid
            /\ last'.resp.has = formatPoints(before + delta)
    ]_vars

\* the same, for the requests whose two readings of the clock fall on one day
C2_SpokenTotalSameDay ==
  [][ (/\ IsRequest(last', "AdjustPointsIntent")
       /\ last'.resp.type = "adjusted"
       /\ toISODate(last'.req.now1) = toISODate(last'.req.now2)) =>
        LET userId == last'.req.userId
            tab    == RowOf(sheets, userId).tab_name
            kid    == normalizeKidName(last'.req.person, KidsOf(sheets, userId))
            before == SumRows(sheets[tab].rows, toISODate(last'.req.now1), kid)
            delta  == AdjustDelta(last'.req.direction, last'.req.delta)
        IN  /\ IsConfigured(sheets, userId)
            /\ last'.resp.person = kid
            /\ last'.resp.has = formatPoints(before + delta)
    ]_vars

\* "reduce two points for Anna's" after one earlier point: minus 1 point
C2_SameDayWitness ==
  /\ IsRequest(last, "AdjustPointsIntent")
  /\ last.resp.type = "adjusted"
  /\ last.resp.has = [minus |-> TRUE, abs |-> 1, unit |-> "point"]

\* a user without a Families row, or with one whose kid list parses to empty
IsUnconfigured(sh, userId) == ~IsConfigured(sh, userId)

\* C4: a Launch, AdjustPoints or Summary request of an unconfigured user is
\* answered with the onboarding prompt (with the apology when one of its
\* calls fails), makes no call that reads or appends event rows and leaves
\* every event row as it was; a request answered by normal operation is one
\* of a user whose Families row holds a non-empty kid list.
C4_OnboardingGate ==
  [][ (\/ IsRequest(last', "LaunchRequest")
       \/ IsRequest(last', "AdjustPointsIntent")
       \/ IsRequest(last', "SummaryIntent")) =>
        /\ IsUnconfigured(sheets, last'.req.userId) =>
             /\ last'.resp.type \in {"promptForKids", "apology"}
             /\ last'.eventCalls = {}
             /\ \A tab \in EventTabs(sheets) : sheets'[tab].rows = sheets[tab].rows
        /\ last'.resp.type \in {"summary", "adjusted", "whichChild"} =>
             /\ HasRow(sheets, last'.req.userId)
             /\ parseKidsList(RowOf(sheets, last'.req.userId).kids) # <<>>
    ]_vars

\* a user whose Families row has a blank kids cell gets the onboarding prompt
C4_Witness ==
  /\ IsRequest(last, "SummaryIntent")
  /\ last.resp.type = "promptForKids"
  /\ HasRow(sheets, last.req.userId)
  /\ RowOf(sheets, last.req.userId).kids = <<>>
  /\ sheets[RowOf(sheets, last.req.userId).tab_name].rows # <<>>

NoRepeat(names) ==
  \A i, j \in 1..Len(names) : toLowerCase(names[i]) = toLowerCase(names[j]) => i = j

\* C5: a ConfigureKids request of an unconfigured user whose kid text parses
\* to a non-empty list, unless one of its calls fails, leaves a Families row
\* of that user holding the parsed kid list, free of repeats, and the user's
\* tab name; the events tab of that name is there with its header row; the
\* confirmation names the stored kids ("Anna, Ben and Ben" stores Anna and
\* Ben); and a configured user stays configured in every later step.
C5_Onboarding ==
  [][ /\ (/\ IsRequest(last', "ConfigureKidsIntent")
          /\ IsUnconfigured(sheets, last'.req.userId)
          /\ parseKidsInput(last'.req.kids) # <<>>
          /\ last'.resp.type # "apology") =>
            LET userId == last'.req.userId
                tab    == buildFamilyTabName(userId)
            IN  /\ HasRow(sheets', userId)
                /\ KidsOf(sheets', userId) = parseKidsInput(last'.req.kids)
                /\ NoRepeat(KidsOf(sheets', userId))
                /\ RowOf(sheets', userId).tab_name = tab
                /\ tab \in DOMAIN sheets'
                /\ sheets'[tab].row1 = EVENTS_HEADER
                /\ last'.resp.type = "configured"
                /\ last'.resp.kids = KidsOf(sheets', userId)
                /\ last'.req.kids = <<"Anna", ",", " ", "Ben", " ", "and", " ", "Ben">> =>
                     KidsOf(sheets', userId) = << <<"Anna">>, <<"Ben">> >>
      /\ \A userId \in Users : IsConfigured(sheets, userId) => IsConfigured(sheets', userId)
    ]_vars

\* a new user said "Anna, Ben and Ben" and is configured with Anna and Ben
C5_Witness ==
  /\ IsRequest(last, "ConfigureKidsIntent")
  /\ last.req.userId = UserA
  /\ last.req.kids = <<"Anna", ",", " ", "Ben", " ", "and", " ", "Ben">>
  /\ last.resp.type = "configured"
  /\ KidsOf(sheets, UserA) = << <<"Anna">>, <<"Ben">> >>

\* C6: a ConfigureKids request of a user who has a Families row changes in
\* that row the kid list and the updated timestamp and nothing else; every
\* other row is as it was and no row is removed.
C6_OnlyKidsAndUpdated ==
  [][ (IsRequest(last', "ConfigureKidsIntent") /\ HasRow(sheets, last'.req.userId)) =>
        LET rows  == sheets[FAMILIES_TAB].rows
            rows2 == sheets'[FAMILIES_TAB].rows
        IN  /\ Len(rows2) = Len(rows)
            /\ \A i \in 1..Len(rows) :
                 IF rows[i].user_id = last'.req.userId
                   THEN /\ rows2[i].user_id = rows[i].user_id
                        /\ rows2[i].tab_name = rows[i].tab_name
                        /\ rows2[i].created_at = rows[i].created_at
                   ELSE rows2[i] = rows[i]
    ]_vars

\* C7: the Families tab holds at most one row per user id; a ConfigureKids
\* request of a user without a row that is confirmed adds one row at the end,
\* and one of a user with a row keeps the number and the order of the rows.
C7_OneRowPerUser ==
  /\ \A userId \in Users : Cardinality(FamilyRowsOf(sheets, userId)) <= 1
  /\ [][ /\ \A userId \in Users : Cardinality(FamilyRowsOf(sheets', userId)) <= 1
         /\ IsRequest(last', "ConfigureKidsIntent") =>
              LET userId == last'.req.userId
                  rows2  == sheets'[FAMILIES_TAB].rows
              IN  /\ HasRow(sheets, userId) =>
                       /\ Len(rows2) = Len(sheets[FAMILIES_TAB].rows)
                       /\ \A i \in 1..Len(rows2) :
                            rows2[i].user_id = sheets[FAMILIES_TAB].rows[i].user_id
                  /\ (~HasRow(sheets, userId) /\ last'.resp.type = "configured") =>
                       /\ rows2[Len(rows2)].user_id = userId
                       /\ Len(rows2) = 1 + (IF FAMILIES_TAB \in DOMAIN sheets
                                              THEN Len(sheets[FAMILIES_TAB].rows) ELSE 0)
       ]_vars

\* a user configured a second time: still one row
C7_Witness ==
  /\ IsRequest(last, "ConfigureKidsIntent")
  /\ last.resp.type = "configured"
  /\ last.req.userId = UserA
  /\ served = 2
  /\ Cardinality(FamilyRowsOf(sheets, UserA)) = 1
  /\ Len(sheets[FAMILIES_TAB].rows) = 2

\* C8: the events tab of a user is named by the user id alone, and setting
\* the tab up again changes nothing that is there.  Every Families row of a
\* user names the tab buildFamilyTabName gives; a ConfigureKids request,
\* confirmed or failed part-way, adds no tab but the Families tab and that
\* one tab of its user, removes none, leaves every header row that is written
\* and every event row as it was, and leaves the user's row naming the same
\* tab.
C8_TabIdempotent ==
  /\ \A userId \in Users :
       HasRow(sheets, userId) => RowOf(sheets, userId).tab_name = buildFamilyTabName(userId)
  /\ [][ /\ \A userId \in Users :
              HasRow(sheets', userId) =>
                RowOf(sheets', userId).tab_name = buildFamilyTabName(userId)
         /\ IsRequest(last', "ConfigureKidsIntent") =>
              /\ DOMAIN sheets \subseteq DOMAIN sheets'
              /\ DOMAIN sheets' \subseteq
                   DOMAIN sheets \cup {FAMILIES_TAB, buildFamilyTabName(last'.req.userId)}
              /\ last'.req.userId = NoUser => DOMAIN sheets' \subseteq DOMAIN sheets \cup {FAMILIES_TAB}
              /\ \A tab \in DOMAIN sheets :
                   /\ sheets[tab].row1 # <<>> => sheets'[tab].row1 = sheets[tab].row1
                   /\ tab # FAMILIES_TAB => sheets'[tab].rows = sheets[tab].rows
       ]_vars

\* a family with an event is configured again: the event is still in its tab
C8_Witness ==
  /\ IsRequest(last, "ConfigureKidsIntent")
  /\ last.resp.type = "configured"
  /\ last.req.userId = UserB
  /\ KidsOf(sheets, UserB) = << <<"Krish">>, <<"Anna">> >>
  /\ sheets[buildFamilyTabName(UserB)].rows = <<EarlierEvent>>
  /\ sheets[buildFamilyTabName(UserB)].row1 = EVENTS_HEADER

(***************************************************************************)
(* The pure functions, applied to inputs drawn from bounded sets.  The     *)
(* variables of the service stand still; probe holds the input and then    *)
(* the result.                                                             *)
(***************************************************************************)
Still ==
  /\ sheets = FreshSheet
  /\ sheetsClientPromise = "null"
  /\ env = GoodEnv
  /\ clock \in StartClocks
  /\ ticks = 0
  /\ served = 0
  /\ last = NoStep

StillUnchanged ==
  UNCHANGED <<sheets, sheetsClientPromise, env, clock, ticks, served, last>>

\* delta slots: absent, without a number, and every integer up to MaxDelta
\* as its decimal text, bare, after a blank and before a letter
MaxDelta == 12

DeltaSlots ==
  { [text |-> <<>>, numeric |-> FALSE, parsed |-> 0],
    [text |-> <<"x">>, numeric |-> FALSE, parsed |-> 0],
    [text |-> <<"-">>, numeric |-> FALSE, parsed |-> 0],
    [text |-> <<"x", "3">>, numeric |-> FALSE, parsed |-> 0] }
  \cup { [text |-> FormatInt(n), numeric |-> TRUE, parsed |-> n] : n \in -MaxDelta..MaxDelta }
  \cup { [text |-> <<" ">> \o FormatInt(n), numeric |-> TRUE, parsed |-> n] :
           n \in -MaxDelta..MaxDelta }
  \cup { [text |-> FormatInt(n) \o <<"x">>, numeric |-> TRUE, parsed |-> n] :
           n \in -MaxDelta..MaxDelta }

\* direction slots, each with whether its lower-cased text holds a keyword
DirectionSlots ==
  { [text |-> <<>>, negative |-> FALSE],
    [text |-> <<"add">>, negative |-> FALSE],
    [text |-> <<"Give">>, negative |-> FALSE],
    [text |-> <<"take">>, negative |-> FALSE],
    [text |-> <<"AWAY">>, negative |-> FALSE],
    [text |-> <<"take", " ", " ", "away">>, negative |-> FALSE],
    [text |-> <<"away", " ", "take">>, negative |-> FALSE],
    [text |-> <<"takeaway", " ", "x">>, negative |-> TRUE],
    [text |-> <<"away", " ", "takeaway">>, negative |-> TRUE],
    [text |-> <<"reduce">>, negative |-> TRUE],
    [text |-> <<"REDUCE">>, negative |-> TRUE],
    [text |-> <<"Reduced">>, negative |-> TRUE],
    [text |-> <<"minus">>, negative |-> TRUE],
    [text |-> <<"Remove">>, negative |-> TRUE],
    [text |-> <<"subtract">>, negative |-> TRUE],
    [text |-> <<"DEDUCT">>, negative |-> TRUE],
    [text |-> <<"take", " ", "away">>, negative |-> TRUE],
    [text |-> <<"Take", " ", "Away">>, negative |-> TRUE],
    [text |-> <<"add", " ", "x", " ", "minus">>, negative |-> TRUE] }

InitDelta ==
  /\ Still
  /\ probe \in { [op |-> "delta", direction |-> dir, delta |-> slot] :
                   dir \in DirectionSlots, slot \in DeltaSlots }

ApplyDelta ==
  /\ probe.op = "delta"
  /\ probe' = [op |-> "deltaDone", direction |-> probe.direction, delta |-> probe.delta,
               out |-> AdjustDelta(probe.direction.text, probe.delta.text)]
  /\ StillUnchanged

NextDelta == ApplyDelta

SpecDelta == InitDelta /\ [][NextDelta]_vars

MaxEvents == 2

TotalsDates == <<20231230, 20231231>>

TotalsEvents ==
  { [date |-> date, person |-> person, delta |-> delta] :
      date \in {20231230, 20231231, 20240105},
      person \in { <<"Krish">>, <<"KRISH">>, <<" ", "krish">>, <<"anna">>, <<"Zoe">> },
      delta \in {-2, 1} }

RECURSIVE EventLists(_)
EventLists(n) ==
  IF n = 0 THEN { <<>> }
  ELSE EventLists(n - 1)
       \cup { Append(list, event) : list \in {l \in EventLists(n - 1) : Len(l) = n - 1},
                                    event \in TotalsEvents }

\* kid lists as parseKidsList gives them
TotalsKids == { << <<"Krish">>, <<"Anna">> >>, << <<"Anna">> >> }

InitTotals ==
  /\ Still
  /\ probe \in { [op |-> "totals", events |-> events, dates |-> TotalsDates, kids |-> kids] :
                   events \in EventLists(MaxEvents), kids \in TotalsKids }

ApplyTotals ==
  /\ probe.op = "totals"
  /\ probe' = [op |-> "totalsDone", events |-> probe.events, dates |-> probe.dates,
               kids |-> probe.kids,
               out |-> buildTotals(probe.events, probe.dates, probe.kids)]
  /\ StillUnchanged

NextTotals == ApplyTotals

SpecTotals == InitTotals /\ [][NextTotals]_vars

\* the sum of the deltas of the events of a date whose person is the kid:
\* ignoring letter case, and when blanks is set also blanks around the name
\* and runs of blanks in it
RECURSIVE SumEvents(_, _, _, _)
SumEvents(events, date, kid, blanks) ==
  IF events = <<>> THEN 0
  ELSE LET person == IF blanks THEN CollapseSpaces(trim(events[1].person))
                     ELSE events[1].person
       IN  (IF events[1].date = date /\ toLowerCase(person) = toLowerCase(kid)
              THEN events[1].delta ELSE 0)
           + SumEvents(Tail(events), date, kid, blanks)

TotalsAre(blanks) ==
  probe.op = "totalsDone" =>
    /\ DOMAIN probe.out = Range(probe.dates)
    /\ \A date \in Range(probe.dates) :
         /\ Range(probe.kids) \subseteq DOMAIN probe.out[date]
         /\ \A kid \in Range(probe.kids) :
              probe.out[date][kid] = SumEvents(probe.events, date, kid, blanks)
    /\ buildTotals(probe.events, probe.dates, probe.kids) = probe.out

\* C9: buildTotals gives an entry for every date of the list and every kid:
\* the signed sum of the deltas of the events of that date whose person,
\* without blanks around it and with runs of blanks collapsed, equals the kid
\* ignoring letter case, 0 when there is none; events of other dates and of
\* other persons change no kid's total, and building again gives the same.
C9_Totals == TotalsAre(TRUE)

\* C9 as stated: the events summed are those whose person equals the kid
\* ignoring letter case.
C9_TotalsByCaseOnly == TotalsAre(FALSE)

\* "KRISH" and " krish" on one day land in Krish's bucket; Zoe's event and
\* the event of another day land in none
C9_Witness ==
  /\ probe.op = "totalsDone"
  /\ probe.kids = << <<"Krish">>, <<"Anna">> >>
  /\ probe.events = << [date |-> 20231231, person |-> <<"KRISH">>, delta |-> -2],
                       [date |-> 20231231, person |-> <<" ", "krish">>, delta |-> 1] >>
  /\ probe.out[20231231][<<"Krish">>] = -1
  /\ probe.out[20231230][<<"Krish">>] = 0
  /\ probe.out[20231231][<<"Anna">>] = 0

\* every day of YearSpan years from 2023 on, of 2000 and of 2100, in the
\* morning and in the evening
YearSpan == 2

DatesYears == {2023 + k : k \in 0..(YearSpan - 1)} \cup {2000, 2100}

DatesNows ==
  { [y |-> y, m |-> m, d |-> d, t |-> t] :
      y \in DatesYears, m \in 1..12, d \in 1..31, t \in 0..1 }

InitDates ==
  /\ Still
  /\ probe \in { [op |-> "dates", now |-> now, period |-> period] :
                   now \in {n \in DatesNows : n.d <= DaysInMonth(n.y, n.m)},
                   period \in {"today", "week", "month"} }

ApplyDates ==
  /\ probe.op = "dates"
  /\ probe' = [op |-> "datesDone", now |-> probe.now, period |-> probe.period,
               out |-> SeriesFor(probe.now, probe.period)]
  /\ StillUnchanged

NextDates == ApplyDates

SpecDates == InitDates /\ [][NextDates]_vars

\* the days before each month in a year that is not a leap year
DaysBefore == <<0, 31, 59, 90, 120, 151, 181, 212, 243, 273, 304, 334, 365>>

\* the day of the year of the day d of month m, counting the leap day
DayOfYear(y, m, d) ==
  DaysBefore[m] + d
  + (IF m > 2 /\ ((y % 4 = 0 /\ y % 100 # 0) \/ y % 400 = 0) THEN 1 ELSE 0)

\* the number of the calendar day written as the ISO date iso
DayNumber(iso) ==
  LET y == iso \div 10000
      m == (iso \div 100) % 100
      d == iso % 100
  IN  365 * (y - 1) + ((y - 1) \div 4) - ((y - 1) \div 100) + ((y - 1) \div 400)
      + DayOfYear(y, m, d)

\* iso names a day of the calendar
IsCalendarDay(iso) ==
  LET y == iso \div 10000
      m == (iso \div 100) % 100
      d == iso % 100
  IN  /\ m \in 1..12
      /\ d >= 1
      /\ DayOfYear(y, m, d) <= DayOfYear(y, m + 1, 0)

\* C10: the date list of "today" is the 3 calendar days that end today, of
\* "week" the 7 that end today, of "month" the days from the 1st of the month
\* to today; each list names calendar days, each the day after the one
\* before, and ends with today.
C10_DateSeries ==
  probe.op = "datesDone" =>
    LET out   == probe.out
        today == probe.now.y * 10000 + probe.now.m * 100 + probe.now.d
    IN  /\ Len(out) = (IF probe.period = "today" THEN 3
                       ELSE IF probe.period = "week" THEN 7 ELSE probe.now.d)
        /\ out[Len(out)] = today
        /\ probe.period = "month" => out[1] = probe.now.y * 10000 + probe.now.m * 100 + 1
        /\ \A k \in 1..Len(out) : IsCalendarDay(out[k])
        /\ \A k \in 1..(Len(out) - 1) : DayNumber(out[k + 1]) = DayNumber(out[k]) + 1

\* the week that ends on 2 March 2024 begins on 25 February, over the leap day
C10_Witness ==
  /\ probe.op = "datesDone"
  /\ probe.period = "week"
  /\ probe.now = [y |-> 2024, m |-> 3, d |-> 2, t |-> 1]
  /\ probe.out = <<20240225, 20240226, 20240227, 20240228, 20240229, 20240301, 20240302>>

(***************************************************************************)
(* Summary requests of a configured family over a log of events.  The day  *)
(* is 3 January 2024, when the week reaches back into December, or 9       *)
(* January, when the month is longer than the week; the log holds any of   *)
(* the events written up to that day, in the order they were written; the  *)
(* device of the request has a screen or none.                             *)
(***************************************************************************)
SummaryClocks ==
  { [y |-> 2024, m |-> 1, d |-> 3, t |-> 1], [y |-> 2024, m |-> 1, d |-> 9, t |-> 1] }

SummaryLog ==
  << EventRow(EventOf(<<"Anna">>, 5, [y |-> 2023, m |-> 12, d |-> 31, t |-> 1])),
     EventRow(EventOf(<<"Anna">>, 1, [y |-> 2024, m |-> 1, d |-> 1, t |-> 0])),
     EventRow(EventOf(<<"Ben">>, -2, [y |-> 2024, m |-> 1, d |-> 2, t |-> 1])),
     EventRow(EventOf(<<"Anna">>, 3, [y |-> 2024, m |-> 1, d |-> 3, t |-> 0])),
     EventRow(EventOf(<<"Ben">>, 4, [y |-> 2024, m |-> 1, d |-> 8, t |-> 1])),
     EventRow(EventOf(<<"Anna">>, -1, [y |-> 2024, m |-> 1, d |-> 9, t |-> 0])) >>

\* the lists made of some of the rows, in their order
RECURSIVE SubLogs(_)
SubLogs(rows) ==
  IF rows = <<>> THEN { <<>> }
  ELSE SubLogs(Tail(rows)) \cup { <<rows[1]>> \o rest : rest \in SubLogs(Tail(rows)) }

\* the rows written up to the day of now
RECURSIVE RowsUpTo(_, _)
RowsUpTo(rows, now) ==
  IF rows = <<>> THEN <<>>
  ELSE IF rows[1].date <= toISODate(now) THEN <<rows[1]>> \o RowsUpTo(Tail(rows), now)
  ELSE RowsUpTo(Tail(rows), now)

SummarySheet(log) == [SetUpSheet EXCEPT ![buildFamilyTabName(UserB)].rows = log]

InitSummary ==
  /\ clock \in SummaryClocks
  /\ sheets \in {SummarySheet(log) : log \in SubLogs(RowsUpTo(SummaryLog, clock))}
  /\ env = GoodEnv
  /\ sheetsClientPromise = "null"
  /\ ticks = 0
  /\ served = 0
  /\ last = NoStep
  /\ probe = NoProbe

SummaryOnDevice ==
  \E rawPeriod \in PeriodTexts, apl \in BOOLEAN :
    \E r \in Outcomes(SummaryIntentHandler(NewCtx, UserB, rawPeriod, clock, apl)) :
      /\ Commit(r, [type |-> "SummaryIntent", userId |-> UserB, period |-> rawPeriod,
                    apl |-> apl])
      /\ UNCHANGED <<clock, ticks>>

NextSummary == SummaryOnDevice

SpecSummary == InitSummary /\ [][NextSummary]_vars

\* the sum of the deltas of the rows of the kid whose day has a number from
\* lo to hi
RECURSIVE SumDays(_, _, _, _)
SumDays(rows, lo, hi, kid) ==
  IF rows = <<>> THEN 0
  ELSE (IF /\ DayNumber(rows[1].date) \in lo..hi
           /\ normalizeName(rows[1].person) = kid
          THEN toInt(rows[1].delta) ELSE 0) + SumDays(Tail(rows), lo, hi, kid)

\* the number of the first day the summary of a period speaks of: six days
\* before today, the 1st of the month, today
SpokenFrom(today, period) ==
  IF period = "week" THEN DayNumber(today) - 6
  ELSE IF period = "month" THEN DayNumber(today) - (today % 100) + 1
  ELSE DayNumber(today)

\* the number of the first day of the chart: as spoken, but three days for
\* "today"
ChartFrom(today, period) ==
  IF period = "today" THEN DayNumber(today) - 2 ELSE SpokenFrom(today, period)

\* C11: a Summary request answered with the summary speaks for each kid the
\* sum of the kid's deltas over the days of the period and no others (for
\* "week" the 7 days to today, for "month" the 1st to today, for "today"
\* today alone); it carries the directive exactly when the device has APL;
\* the directive has one bar per kid and day of the same days (three days
\* for "today"), each the kid's sum of that day, and summary values equal to
\* the spoken ones.
C11_SummaryWindow ==
  (last.req.type = "SummaryIntent" /\ last.resp.type = "summary") =>
    LET period == parseSummaryPeriod(last.req.period)
        today  == clock.y * 10000 + clock.m * 100 + clock.d
        kids   == KidsOf(sheets, last.req.userId)
        rows   == sheets[buildFamilyTabName(last.req.userId)].rows
        from   == SpokenFrom(today, period)
        first  == ChartFrom(today, period)
        Spoken(kid) == SumDays(rows, from, DayNumber(today), kid)
        speech == last.resp.speech
        shown  == last.resp.directive
    IN  /\ speech.period = period
        /\ Len(speech.parts) = Len(kids)
        /\ \A i \in 1..Len(kids) :
             /\ speech.parts[i].kid = kids[i]
             /\ speech.parts[i].has.abs = Abs(Spoken(kids[i]))
             /\ speech.parts[i].has.minus = (Spoken(kids[i]) < 0)
        /\ (shown # Null) <=> last.req.apl
        /\ shown # Null =>
             /\ Len(shown.payload.summary) = Len(kids)
             /\ Len(shown.payload.people) = Len(kids)
             /\ Len(shown.payload.spark) = DayNumber(today) - first + 1
             /\ \A i \in 1..Len(kids) :
                  /\ shown.payload.summary[i].name = kids[i]
                  /\ shown.payload.summary[i].value = Spoken(kids[i])
                  /\ shown.payload.people[i].name = kids[i]
                  /\ Len(shown.payload.people[i].bars) = DayNumber(today) - first + 1
                  /\ \A k \in 1..Len(shown.payload.people[i].bars) :
                       LET bar == shown.payload.people[i].bars[k]
                       IN  /\ bar.value = SumDays(rows, first + k - 1, first + k - 1, kids[i])
                           /\ bar.label # NoLabel =>
                                DayNumber(bar.label.date) = first + k - 1

\* on 9 January, on a device with a screen, the monthly summary over the
\* whole log: Anna has 1 + 3 - 1, Ben has -2 + 4, the 5 of 31 December not
\* counted, and the chart has the nine days of the month
C11_Witness ==
  /\ last.req.type = "SummaryIntent"
  /\ last.resp.type = "summary"
  /\ parseSummaryPeriod(last.req.period) = "month"
  /\ last.req.apl
  /\ clock.d = 9
  /\ sheets[buildFamilyTabName(UserB)].rows = SummaryLog
  /\ last.resp.speech.parts[1].has.abs = 3
  /\ last.resp.speech.parts[2].has.abs = 2
  /\ last.resp.directive # Null
  /\ Len(last.resp.directive.payload.spark) = 9
  /\ last.resp.directive.payload.summary[1].value = 3

(***************************************************************************)
(* The trend payload of tables of totals as buildTotals gives them: an     *)
(* entry for every date of the list and every kid of the list.             *)
(***************************************************************************)
TrendValues == {-80, -23, 0, 1, 23, 80}

TrendKids == { << <<"Anna">> >>, << <<"Anna">>, <<"Ben">> >> }

TrendDateLists == { <<20240109>>, <<20240108, 20240109>> }

InitTrend ==
  /\ Still
  /\ probe \in { [op |-> "trend", dates |-> dates, kids |-> kids, totals |-> totals] :
                   <<dates, kids, totals>> \in
                     UNION { UNION { { <<dd, kk, tt>> :
                                         tt \in [Range(dd) -> [Range(kk) -> TrendValues]] } :
                                     kk \in TrendKids } : dd \in TrendDateLists } }

ApplyTrend ==
  /\ probe.op = "trend"
  /\ probe' = [op |-> "trendDone", dates |-> probe.dates, kids |-> probe.kids,
               totals |-> probe.totals,
               out |-> buildTrendPayload(probe.dates, LabelsFor(probe.dates, "MMM d"),
                                         probe.totals, probe.kids, "Last 3 Days", "Today",
                                         Null, Null)]
  /\ StillUnchanged

NextTrend == ApplyTrend

SpecTrend == InitTrend /\ [][NextTrend]_vars

\* the largest of 1 and the numbers of a set
AtLeastOne(values) == CHOOSE m \in values \cup {1} : \A v \in values \cup {1} : v <= m

\* the values behind the bars of a payload: per kid and date, and per date
\* all kids together
BarValues ==
  {Abs(probe.totals[date][kid]) : date \in Range(probe.dates), kid \in Range(probe.kids)}

RECURSIVE SumOfKids(_, _)
SumOfKids(day, kids) ==
  IF kids = <<>> THEN 0 ELSE day[kids[1]] + SumOfKids(day, Tail(kids))

SparkValues == {Abs(SumOfKids(probe.totals[date], probe.kids)) : date \in Range(probe.dates)}

\* the heights of a payload are as Near(value, largest, scale, height) says
HeightsAre(Near(_, _, _, _)) ==
  probe.op = "trendDone" =>
    /\ \A i \in 1..Len(probe.kids), k \in 1..Len(probe.dates) :
         LET bar == probe.out.people[i].bars[k]
         IN  /\ bar.value = probe.totals[probe.dates[k]][probe.kids[i]]
             /\ Near(Abs(bar.value), AtLeastOne(BarValues), 200, bar.height)
             /\ bar.height \in 0..200
    /\ \A k \in 1..Len(probe.dates) :
         LET bar == probe.out.spark[k]
         IN  /\ bar.value = SumOfKids(probe.totals[probe.dates[k]], probe.kids)
             /\ Near(Abs(bar.value), AtLeastOne(SparkValues), 60, bar.height)
             /\ bar.height \in 0..60

\* C12: every bar height is |value| / M * 200 rounded to the nearest whole
\* number (a half rounded up, as round does), M the largest of 1 and the
\* |value| of all kids and dates, and lies in 0..200; every sparkline height
\* is |s| / S * 60 rounded likewise, s the sum of the kids' totals of the
\* date, S the largest of 1 and the |s|, and lies in 0..60.
C12_Heights ==
  HeightsAre(LAMBDA value, largest, scale, height :
               height = (2 * value * scale + largest) \div (2 * largest))

\* every height is a whole number no further than 1/2 from the scaled
\* value, and in range
C12_HeightsNearest ==
  HeightsAre(LAMBDA value, largest, scale, height :
               /\ 2 * largest * height - 2 * value * scale <= largest
               /\ 2 * value * scale - 2 * largest * height <= largest)

\* a table of zeros gives height 0 everywhere
C12_ZeroTable ==
  (probe.op = "trendDone" /\ BarValues = {0}) =>
    /\ \A i \in 1..Len(probe.kids), k \in 1..Len(probe.dates) :
         probe.out.people[i].bars[k].height = 0
    /\ \A k \in 1..Len(probe.dates) : probe.out.spark[k].height = 0

\* Anna has 23 on a day and Ben 80: Anna's bar is 57 high, 80 / 80 * 200
\* being 200 and 23 / 80 * 200 being 57.5
C12_HalfWitness ==
  /\ probe.op = "trendDone"
  /\ probe.kids = << <<"Anna">>, <<"Ben">> >>
  /\ probe.dates = <<20240109>>
  /\ probe.totals[20240109][<<"Anna">>] = 23
  /\ probe.totals[20240109][<<"Ben">>] = 80
  /\ probe.out.people[1].bars[1].height = 57
  /\ probe.out.people[2].bars[1].height = 200

(***************************************************************************)
(* Kid texts: up to MaxNames names, each of one word in some casing or of  *)
(* two words, joined by a comma, an ampersand or the word "and"; a list of *)
(* nine names, one of them twice; and texts that hold no name.             *)
(***************************************************************************)
MaxNames == 3

SaidNames ==
  { <<"anna">>, <<"ANNA">>, <<"Ben">>, <<"zoe">>, <<"anna", " ", "ZOE">> }

Joiners ==
  { <<",", " ">>, <<"&">>, <<" ", "and", " ">>, <<" ", " ", "AND", " ">> }

LongNameList ==
  << <<"krish">>, <<"Adith">>, <<"ANNA">>, <<"ben">>, <<"KRISH">>, <<"zoe">>, <<"x">>,
     <<"give">>, <<"today">> >>

NoNameTexts ==
  { <<>>, <<" ">>, <<",">>, <<" ", "&", " ">>, <<",", " ", ",">> }

\* the names said one after the other, joiners[i] behind names[i]
RECURSIVE Said(_, _)
Said(names, joiners) ==
  IF Len(names) = 1 THEN names[1]
  ELSE names[1] \o joiners[1] \o Said(Tail(names), Tail(joiners))

InitKids ==
  /\ Still
  /\ probe \in
       UNION { { [op |-> "kids", names |-> names, text |-> Said(names, joiners)] :
                   names \in [1..n -> SaidNames], joiners \in [1..(n - 1) -> Joiners] } :
               n \in 1..MaxNames }
       \cup { [op |-> "kids", names |-> LongNameList,
               text |-> Said(LongNameList, [i \in 1..(Len(LongNameList) - 1) |-> joiner])] :
                joiner \in Joiners }
       \cup { [op |-> "kids", names |-> <<>>, text |-> text] : text \in NoNameTexts }

ApplyKids ==
  /\ probe.op = "kids"
  /\ probe' = [op |-> "kidsDone", names |-> probe.names, text |-> probe.text,
               out |-> parseKidsInput(probe.text)]
  /\ StillUnchanged

NextKids == ApplyKids

SpecKids == InitKids /\ [][NextKids]_vars

\* a name with every word in Title Case
EachWordTitle(name) == [i \in 1..Len(name) |-> TitleTok(name[i])]

\* a name with its first letter in upper case and the others in lower case
FirstLetterUpper(name) ==
  [i \in 1..Len(name) |-> IF i = 1 THEN TitleTok(name[i]) ELSE LowerTok(name[i])]

\* the names that differ, letter case apart, from every name before them
RECURSIVE FirstOccurrences(_, _)
FirstOccurrences(names, n) ==
  IF n = 0 THEN <<>>
  ELSE FirstOccurrences(names, n - 1) \o
       (IF \E j \in 1..(n - 1) : toLowerCase(names[j]) = toLowerCase(names[n])
          THEN <<>> ELSE <<names[n]>>)

\* the result is the said names in the order of their first occurrence,
\* each written as Written says, repeats apart from letter case left out,
\* cut after the sixth; it is empty only when no name was said
KidsAre(Written(_)) ==
  probe.op = "kidsDone" =>
    LET first == FirstOccurrences(probe.names, Len(probe.names))
        count == IF Len(first) < 6 THEN Len(first) ELSE 6
    IN  /\ probe.out = [i \in 1..count |-> Written(first[i])]
        /\ Len(probe.out) <= 6
        /\ (probe.out = <<>>) <=> (probe.names = <<>>)

\* C13 as it stands: for every kid text of one or more names joined by
\* commas, "&" or " and ", in any casing and with or without repeats,
\* parseKidsInput returns the names in first-occurrence order, each in Title
\* Case, without repeats that differ in casing only, at most 6 of them, and
\* the empty list only when the text holds no name.
C13_KidsTitleCase == KidsAre(EachWordTitle)

\* C13: the same, but each name is returned with its first letter in upper
\* case and all its other letters in lower case, which is Title Case for a
\* name of one word.
C13_Kids == KidsAre(FirstLetterUpper)

\* nine names were said with " and " between them, Krish twice, and the
\* first six that differ are returned
C13_Witness ==
  /\ probe.op = "kidsDone"
  /\ probe.names = LongNameList
  /\ probe.text[2] = " " /\ probe.text[3] = "and"
  /\ probe.out = << <<"Krish">>, <<"Adith">>, <<"Anna">>, <<"Ben">>, <<"Zoe">>, <<"X">> >>

(***************************************************************************)
(* exports.handler: the request goes to the first registered handler whose *)
(* canHandle accepts it; when none does the dispatcher throws and          *)
(* ErrorHandler answers.                                                   *)
(***************************************************************************)
Registered ==
  << "CanFulfillIntentRequestHandler", "LaunchRequestHandler",
     "ConfigureKidsIntentHandler", "AdjustPointsIntentHandler", "SummaryIntentHandler",
     "DoneIntentHandler", "HelpIntentHandler", "CancelAndStopIntentHandler",
     "FallbackIntentHandler" >>

canHandle(handler, req) ==
  CASE handler = "CanFulfillIntentRequestHandler" -> req.type = "CanFulfillIntentRequest"
    [] handler = "LaunchRequestHandler" -> req.type = "LaunchRequest"
    [] handler = "ConfigureKidsIntentHandler" ->
         req.type = "IntentRequest" /\ req.intent = "ConfigureKidsIntent"
    [] handler = "AdjustPointsIntentHandler" ->
         req.type = "IntentRequest" /\ req.intent = "AdjustPointsIntent"
    [] handler = "SummaryIntentHandler" ->
         req.type = "IntentRequest" /\ req.intent = "SummaryIntent"
    [] handler = "DoneIntentHandler" ->
         req.type = "IntentRequest" /\ req.intent \in {"DoneIntent", "AMAZON.NoIntent"}
    [] handler = "HelpIntentHandler" ->
         req.type = "IntentRequest" /\ req.intent = "AMAZON.HelpIntent"
    [] handler = "CancelAndStopIntentHandler" ->
         req.type = "IntentRequest"
         /\ req.intent \in {"AMAZON.CancelIntent", "AMAZON.StopIntent"}
    [] handler = "FallbackIntentHandler" ->
         req.type = "IntentRequest" /\ req.intent = "AMAZON.FallbackIntent"

\* the handlers that accept the request
Accepting(req) == {handler \in Range(Registered) : canHandle(handler, req)}

\* the first handler in the order of registration that accepts the request
Dispatched(order, req) ==
  IF \A i \in 1..Len(order) : ~canHandle(order[i], req) THEN "none"
  ELSE order[CHOOSE i \in 1..Len(order) :
               canHandle(order[i], req) /\ \A j \in 1..(i - 1) : ~canHandle(order[j], req)]

\* buildCanFulfillResponse
buildCanFulfillResponse(canFulfill, slots) ==
  [type |-> "canFulfill", canFulfill |-> canFulfill, slots |-> slots]

\* the family of the user is looked up before answering
CanFulfillIntentRequestHandlerLooksUp(ctx, intentName) ==
  Respond(getFamilyConfig(ctx, UserB).ctx, buildCanFulfillResponse("NO", {}))

CanFulfillIntentRequestHandler(ctx, intentName) ==
  Respond(ctx,
    IF intentName = "AdjustPointsIntent"
      THEN buildCanFulfillResponse("YES",
             { <<"person", "MAYBE", "MAYBE">>, <<"delta", "YES", "YES">>,
               <<"direction", "YES", "YES">> })
    ELSE IF intentName = "SummaryIntent"
      THEN buildCanFulfillResponse("YES", { <<"period", "YES", "YES">> })
    ELSE IF intentName = "ConfigureKidsIntent"
      THEN buildCanFulfillResponse("YES", { <<"kids", "YES", "YES">> })
    ELSE buildCanFulfillResponse("NO", {}))

DoneIntentHandler(ctx) == Respond(ctx, [type |-> "okay", shouldEndSession |-> TRUE])

HelpIntentHandler(ctx) == Respond(ctx, [type |-> "help", reprompt |-> TRUE])

CancelAndStopIntentHandler(ctx) == Respond(ctx, [type |-> "goodbye"])

FallbackIntentHandler(ctx) == Respond(ctx, [type |-> "fallback", reprompt |-> TRUE])

\* the chosen handler's handle, or the dispatcher's exception
handle(handler, ctx, req, now) ==
  CASE handler = "CanFulfillIntentRequestHandler" ->
         CanFulfillIntentRequestHandler(ctx, req.intent)
    [] handler = "LaunchRequestHandler" ->
         LaunchRequestHandler(ctx, req.userId, now, req.apl)
    [] handler = "ConfigureKidsIntentHandler" ->
         ConfigureKidsIntentHandler(ctx, req.userId, req.slots.kids, now)
    [] handler = "AdjustPointsIntentHandler" ->
         AdjustPointsIntentHandler(ctx, req.userId, req.slots.person,
                                   req.slots.direction, req.slots.delta, now, now, req.apl)
    [] handler = "SummaryIntentHandler" ->
         SummaryIntentHandler(ctx, req.userId, req.slots.period, now, req.apl)
    [] handler = "DoneIntentHandler" -> DoneIntentHandler(ctx)
    [] handler = "HelpIntentHandler" -> HelpIntentHandler(ctx)
    [] handler = "CancelAndStopIntentHandler" -> CancelAndStopIntentHandler(ctx)
    [] handler = "FallbackIntentHandler" -> FallbackIntentHandler(ctx)
    [] handler = "none" -> Respond(Throw(ctx), Apology)

\* the intents of the skill, built-in intents it handles, and two built-in
\* intents it has no handler for
IntentNames ==
  { "ConfigureKidsIntent", "AdjustPointsIntent", "SummaryIntent", "DoneIntent",
    "AMAZON.NoIntent", "AMAZON.HelpIntent", "AMAZON.CancelIntent", "AMAZON.StopIntent",
    "AMAZON.FallbackIntent", "AMAZON.YesIntent", "AMAZON.NavigateHomeIntent" }

NoSlots == [kids |-> <<>>, person |-> <<>>, direction |-> <<>>, delta |-> <<>>,
            period |-> <<>>]

\* what is said with the intents that have slots: kid names or none, a kid
\* of a family, a name no family has or no name, a period
SlotsOf(intent) ==
  IF intent = "ConfigureKidsIntent"
    THEN { [NoSlots EXCEPT !.kids = kids] : kids \in KidsTexts }
  ELSE IF intent = "AdjustPointsIntent"
    THEN { [NoSlots EXCEPT !.person = said.person, !.direction = said.direction,
                           !.delta = said.delta] : said \in Utterances }
  ELSE IF intent = "SummaryIntent"
    THEN { [NoSlots EXCEPT !.period = <<"this", " ", "week">>] }
  ELSE { NoSlots }

\* the requests Alexa sends: the launch, an intent, the pre-check of an
\* intent (which may name none), the end of the session
Requests ==
  { [type |-> type, intent |-> "", userId |-> userId, slots |-> NoSlots,
     apl |-> userId \in ScreenUsers] :
      type \in {"LaunchRequest", "SessionEndedRequest"}, userId \in Users }
  \cup UNION { { [type |-> type, intent |-> intent, userId |-> UserB, slots |-> slots,
                  apl |-> FALSE] :
                   slots \in SlotsOf(intent),
                   type \in {"IntentRequest", "CanFulfillIntentRequest"} } :
               intent \in IntentNames }
  \cup { [type |-> "CanFulfillIntentRequest", intent |-> "", userId |-> UserB,
          slots |-> NoSlots, apl |-> FALSE] }

\* the handlers as they are registered, and registered the other way round
Orders == { Registered, [i \in 1..Len(Registered) |-> Registered[Len(Registered) + 1 - i]] }

InitDispatch ==
  /\ \/ sheets \in {FreshSheet, SetUpSheet} /\ env = GoodEnv
     \/ sheets = SetUpSheet
        /\ env \in {[GoodEnv EXCEPT !.SHEET_ID = ""], [GoodEnv EXCEPT !.SECRET_NAME = ""]}
  /\ sheetsClientPromise = "null"
  /\ clock \in StartClocks
  /\ ticks = 0
  /\ served = 0
  /\ last = NoStep
  /\ probe \in { [op |-> "registered", order |-> order] : order \in Orders }

\* one invocation of exports.handler; last keeps the request, the handlers
\* that accept it, the one that ran, the external calls made, which of them
\* rejected, and the response
Dispatch ==
  \E req \in Requests :
    \E r \in Outcomes(handle(Dispatched(probe.order, req), NewCtx, req, clock)) :
      /\ served < MaxRequests
      /\ served' = served + 1
      /\ sheets' = r.ctx.sheets
      /\ sheetsClientPromise' = r.ctx.client
      /\ last' = [req |-> req, resp |-> r.resp, eventCalls |-> EventCalls(r.ctx.calls),
                  accepted |-> Accepting(req),
                  handler |-> Dispatched(probe.order, req),
                  calls |-> [i \in 1..Len(r.ctx.calls) |-> r.ctx.calls[i].op],
                  failed |-> r.failed]
      /\ UNCHANGED <<env, clock, ticks, probe>>

NextDispatch == Dispatch

SpecDispatch == InitDispatch /\ [][NextDispatch]_vars

\* C14 as it stands: every request is accepted by exactly one registered
\* handler, never by none and never by more than one.
C14_ExactlyOne ==
  last.req.type \in {"LaunchRequest", "IntentRequest", "CanFulfillIntentRequest",
                     "SessionEndedRequest"} =>
    Cardinality(last.accepted) = 1

\* no request is accepted by more than one registered handler; the handler
\* that runs is the one that accepts, whatever the order of registration and
\* whatever came before; a request that none accepts is answered by
\* ErrorHandler
C14_AtMostOne ==
  last.req.type \in {"LaunchRequest", "IntentRequest", "CanFulfillIntentRequest",
                     "SessionEndedRequest"} =>
    /\ Cardinality(last.accepted) <= 1
    /\ last.accepted # {} => last.accepted = {last.handler}
    /\ last.accepted = {} => (last.handler = "none" /\ last.resp = Apology)
    /\ last.handler = Dispatched(Registered, last.req)

\* the session ended and no handler accepted the request
C14_NoneWitness ==
  /\ last.req.type = "SessionEndedRequest"
  /\ last.accepted = {}
  /\ last.resp = Apology
  /\ served = 2

\* C15: a CanFulfillIntentRequest, whatever intent it names and whatever its
\* slots hold, is answered without any call of the secret store or of the
\* spreadsheet: the spreadsheet (Families rows, event rows) and the cached
\* client are after it what they were before, and the answer is not the
\* apology.
C15_PreCheckFrame ==
  [][ (served' = served + 1 /\ last'.req.type = "CanFulfillIntentRequest") =>
        /\ last'.handler = "CanFulfillIntentRequestHandler"
        /\ last'.calls = <<>>
        /\ sheets' = sheets
        /\ sheetsClientPromise' = sheetsClientPromise
        /\ last'.resp.type = "canFulfill"
    ]_vars

\* a family has added a point, the client is cached, and the pre-check of
\* AdjustPointsIntent is answered with YES
C15_Witness ==
  /\ last.req.type = "CanFulfillIntentRequest"
  /\ last.req.intent = "AdjustPointsIntent"
  /\ last.resp.type = "canFulfill"
  /\ last.resp.canFulfill = "YES"
  /\ sheetsClientPromise = "resolved"
  /\ buildFamilyTabName(UserB) \in DOMAIN sheets
  /\ Len(sheets[buildFamilyTabName(UserB)].rows) = 2

\* the calls that write to the spreadsheet
WriteCalls == {"addSheet", "values.update A1", "values.append A:E", "values.update C:E",
               "values.append A:F"}

\* C16: with the settings present and no call failing (none rejects in the
\* request, and the cached client is not one whose creation failed), an
\* AdjustPoints request of a configured family whose person slot matches
\* none of its kids (or is absent), and a ConfigureKids request whose kid
\* text parses to no name, are answered by their own handler with a response that re-prompts,
\* not by ErrorHandler, and write nothing: no write call is made, and the
\* spreadsheet, its event rows and Families rows, is as before.
C16_RepromptNoWrite ==
  [][ (/\ served' = served + 1
       /\ env = GoodEnv
       /\ last'.failed = 0
       /\ \/ /\ last'.handler = "AdjustPointsIntentHandler"
             /\ sheetsClientPromise # "rejected"
             /\ IsConfigured(sheets, last'.req.userId)
             /\ normalizeKidName(last'.req.slots.person,
                                 KidsOf(sheets, last'.req.userId)) = <<>>
          \/ /\ last'.handler = "ConfigureKidsIntentHandler"
             /\ parseKidsInput(last'.req.slots.kids) = <<>>) =>
        /\ last'.resp.type =
             (IF last'.handler = "AdjustPointsIntentHandler" THEN "whichChild" ELSE "noNames")
        /\ last'.resp.reprompt
        /\ last'.resp # Apology
        /\ \A i \in 1..Len(last'.calls) : last'.calls[i] \notin WriteCalls
        /\ sheets' = sheets
    ]_vars

\* points for Zoe were asked of the family of Anna and Ben, which has one
\* event: the skill asks which child, and the event rows are as they were
C16_Witness ==
  /\ last.req.type = "IntentRequest"
  /\ last.handler = "AdjustPointsIntentHandler"
  /\ last.req.slots.person = <<"zoe">>
  /\ last.resp.type = "whichChild"
  /\ last.resp.reprompt
  /\ last.failed = 0
  /\ sheets = SetUpSheet

\* the kid text " , " was said: the skill asks for the names again
C16_NoNamesReached ==
  /\ last.req.type = "IntentRequest"
  /\ last.handler = "ConfigureKidsIntentHandler"
  /\ last.req.slots.kids = <<" ", ",", " ">>
  /\ last.resp.type = "noNames"
  /\ last.calls = <<>>

\* the handlers that work on the spreadsheet
DataHandlers == {"LaunchRequestHandler", "ConfigureKidsIntentHandler",
                 "AdjustPointsIntentHandler", "SummaryIntentHandler"}

\* C17: when SHEET_ID or SECRET_NAME is not set, every Launch,
\* ConfigureKids, AdjustPoints and Summary request ends without any call of
\* the secret store or the spreadsheet, leaves the spreadsheet and the
\* cached client as they were, and is answered with the apology of
\* ErrorHandler.
C17_FailFast ==
  [][ (/\ served' = served + 1
       /\ (env.SHEET_ID = "" \/ env.SECRET_NAME = "")
       /\ last'.handler \in DataHandlers) =>
        /\ last'.calls = <<>>
        /\ last'.failed = 0
        /\ sheets' = sheets
        /\ sheetsClientPromise' = sheetsClientPromise
        /\ sheetsClientPromise' = "null"
        /\ last'.resp = Apology
    ]_vars

\* SECRET_NAME is not set, a kid text with names was said, and the answer
\* is the apology
C17_Witness ==
  /\ env.SECRET_NAME = ""
  /\ last.req.type = "IntentRequest"
  /\ last.handler = "ConfigureKidsIntentHandler"
  /\ parseKidsInput(last.req.slots.kids) # <<>>
  /\ last.calls = <<>>
  /\ last.resp = Apology
  /\ sheets = SetUpSheet

C18_SecretReached ==
  /\ last.req.type = "LaunchRequest"
  /\ last.failed = 1
  /\ last.calls = <<"getSecretValue">>
  /\ last.resp = Apology

(***************************************************************************)
(* Reading the rows of an events tab that were edited by hand: up to       *)
(* MaxRows rows whose date, person and delta cells are filled, empty or    *)
(* hold other text.  A date cell is 0 when it is empty.                    *)
(***************************************************************************)
MaxRows == 2

\* delta cells, whether the cell holds a number, and the number the text
\* begins with (0 when it begins with none)
DeltaCells ==
  { [cell |-> <<"2">>, number |-> TRUE, begins |-> 2],
    [cell |-> <<"-", "1">>, number |-> TRUE, begins |-> -1],
    [cell |-> <<>>, number |-> FALSE, begins |-> 0],
    [cell |-> <<"x">>, number |-> FALSE, begins |-> 0],
    [cell |-> <<"2", "x">>, number |-> FALSE, begins |-> 2] }

StoredRow(date, person, cell) ==
  [timestamp_iso |-> 0, date |-> date, person |-> person, delta |-> cell,
   who |-> "Parent", note |-> ""]

\* the rows with a date, a person and a number; the rows with one cell
\* empty or holding other text; the row without any cell
StoredRows ==
  { StoredRow(date, person, cell) :
      date \in {20231230, 20231231}, person \in { <<"Anna">>, <<"ben">> },
      cell \in { <<"2">>, <<"-", "1">> } }
    \cup { StoredRow(20231231, person, d.cell) :
             person \in { <<"Anna">>, <<"ben">> }, d \in DeltaCells }
    \cup { StoredRow(20231231, person, <<"2">>) : person \in { <<>>, <<" ">> } }
    \cup { StoredRow(0, <<"Anna">>, <<"2">>), StoredRow(0, <<>>, <<>>) }

ReadDates == <<20231230, 20231231>>

ReadKids == << <<"Anna">>, <<"Ben">> >>

ReadTab == buildFamilyTabName(UserB)

InitRead ==
  /\ Still
  /\ probe \in UNION { { [op |-> "read", rows |-> rows] : rows \in [1..n -> StoredRows] } :
                       n \in 0..MaxRows }

\* readEvents on the tab, then buildTotals
ApplyRead ==
  /\ probe.op = "read"
  /\ probe' =
       [op |-> "readDone", rows |-> probe.rows,
        events |-> EventRows([sheets |-> (ReadTab :> [row1 |-> EVENTS_HEADER,
                                                      rows |-> probe.rows])], ReadTab),
        totals |-> buildTotals(
                     EventRows([sheets |-> (ReadTab :> [row1 |-> EVENTS_HEADER,
                                                        rows |-> probe.rows])], ReadTab),
                     ReadDates, ReadKids)]
  /\ StillUnchanged

NextRead == ApplyRead

SpecRead == InitRead /\ [][NextRead]_vars

\* what the delta cell of a stored row is known to be
CellOf(row) == CHOOSE d \in DeltaCells : d.cell = row.delta

\* the sum of the values of the entries of a date and a kid
RECURSIVE SumStored(_, _, _)
SumStored(entries, date, kid) ==
  IF entries = <<>> THEN 0
  ELSE (IF entries[1].date = date /\ entries[1].kid = kid THEN entries[1].value ELSE 0)
       + SumStored(Tail(entries), date, kid)

\* the rows that Counts accepts, each with its kid and with Value of the row
Counted(rows, Counts(_), Value(_)) ==
  LET counting == SelectSeq(rows, Counts)
  IN  [i \in 1..Len(counting) |->
         [date |-> counting[i].date, kid |-> normalizeName(counting[i].person),
          value |-> Value(counting[i])]]

\* the events read are the rows that Kept accepts, each with the delta
\* Value gives; the total of every kid and date is the sum over the rows
\* that Counts accepts
ReadsAre(Kept(_), Counts(_), Value(_)) ==
  probe.op = "readDone" =>
    LET kept == SelectSeq(probe.rows, Kept)
    IN  /\ Len(probe.events) = Len(kept)
        /\ \A i \in 1..Len(kept) :
             /\ probe.events[i].date = kept[i].date
             /\ probe.events[i].person = kept[i].person
             /\ probe.events[i].delta = Value(kept[i])
        /\ \A k \in 1..Len(ReadDates), i \in 1..Len(ReadKids) :
             TotalOf(probe.totals, ReadDates[k], ReadKids[i])
               = SumStored(Counted(probe.rows, Counts, Value), ReadDates[k], ReadKids[i])

\* a person or date cell that is empty or holds blanks only
IsBlank(text) == \A i \in 1..Len(text) : text[i] = " "

\* C19 as it stands: a row whose delta is missing or not a number is read
\* with delta 0, a row whose date or person is blank is dropped, and the
\* totals are those of the well-formed rows alone: the rows with a date, a
\* person and a number as delta.
C19_WellFormedOnly ==
  ReadsAre(LAMBDA row : row.date # 0 /\ ~IsBlank(row.person),
           LAMBDA row : row.date # 0 /\ ~IsBlank(row.person) /\ CellOf(row).number,
           LAMBDA row : IF CellOf(row).number THEN CellOf(row).begins ELSE 0)

\* C19: a row is read with the whole number its delta cell begins with and
\* with 0 when the cell is empty or begins with none ("2x" is read as 2); a
\* row whose date or person cell is empty is dropped (a person cell of
\* blanks is kept; it counts for no kid); the total of every kid and date
\* is the sum of the deltas so read over the rows of that date and kid.
C19_ReadRows ==
  ReadsAre(LAMBDA row : row.date # 0 /\ row.person # <<>>,
           LAMBDA row : row.date # 0 /\ row.person # <<>>,
           LAMBDA row : CellOf(row).begins)

\* a row of Anna with delta "x" and a row without a person were stored:
\* one event is read, with delta 0, and Anna's totals are 0
C19_Witness ==
  /\ probe.op = "readDone"
  /\ Len(probe.rows) = 2
  /\ probe.rows[1].person = <<"Anna">> /\ probe.rows[1].date = 20231231
  /\ probe.rows[1].delta = <<"x">>
  /\ probe.rows[2].person = <<>> /\ probe.rows[2].date = 20231231
  /\ probe.rows[2].delta = <<"2">>
  /\ Len(probe.events) = 1
  /\ probe.events[1].delta = 0
  /\ probe.totals[20231231][<<"Anna">>] = 0
  /\ probe.totals[20231230][<<"Anna">>] = 0

(***************************************************************************)
(* getSheetsClient step by step.  A call runs up to its first await in one *)
(* step: it tests the cached promise and, when there is none, stores a new *)
(* one, whose body has then asked Secrets Manager for the secret.  The     *)
(* secret and the authorised client arrive in later steps, and so does the *)
(* value of the promise at each caller.  probe holds the module state of   *)
(* the process beside sheetsClientPromise:                                 *)
(*   process   the number of the execution context                         *)
(*   stage     how far the body of the promise is: "none", "secret" (the   *)
(*             secret is awaited), "auth" (the client is awaited), "done"  *)
(*   fetches   the secret fetches started by this process                  *)
(*   clients   the Sheets clients built by this process                    *)
(*   made      the Sheets clients built by all processes; the newest       *)
(*             client has this number                                      *)
(*   handle    the client the promise resolved to, 0 while there is none   *)
(*   before    the client of the process before, 0 when it had none        *)
(*   request   the number of the request the process is handling           *)
(*   calls     the calls of getSheetsClient in this process: the request,  *)
(*             what the cached promise was when the call started, and the  *)
(*             client received (0 while awaited, -1 for a rejection)       *)
(***************************************************************************)
MaxCalls == 3

MaxProcesses == 2

FreshModule(process, made, before) ==
  [op |-> "client", process |-> process, stage |-> "none", fetches |-> 0,
   clients |-> 0, made |-> made, handle |-> 0, before |-> before,
   request |-> 1, calls |-> <<>>]

\* the promise is cached only once it has resolved: a call that finds it
\* unresolved starts the body again
getSheetsClientSyncUnshared(cached, stage, fetches) ==
  IF cached \in {"null", "pending"}
    THEN [cached |-> "pending", stage |-> "secret", fetches |-> fetches + 1]
    ELSE [cached |-> cached, stage |-> stage, fetches |-> fetches]

\* if (!sheetsClientPromise) { sheetsClientPromise = (async () => ...)(); }
getSheetsClientSync(cached, stage, fetches) ==
  IF cached = "null"
    THEN [cached |-> "pending", stage |-> "secret", fetches |-> fetches + 1]
    ELSE [cached |-> cached, stage |-> stage, fetches |-> fetches]

InitClient ==
  /\ Still
  /\ probe = FreshModule(1, 0, 0)

\* a caller awaits getSheetsClient()
CallGetSheetsClient ==
  /\ probe.op = "client"
  /\ Len(probe.calls) < MaxCalls
  /\ \E r \in {getSheetsClientSync(sheetsClientPromise, probe.stage, probe.fetches)} :
       /\ sheetsClientPromise' = r.cached
       /\ probe' = [probe EXCEPT !.stage = r.stage, !.fetches = r.fetches,
                                 !.calls = Append(@, [request |-> probe.request,
                                                      cached |-> sheetsClientPromise,
                                                      handle |-> 0])]
  /\ UNCHANGED <<sheets, env, clock, ticks, served, last>>

\* getServiceAccountCredentials returns the credentials
SecretArrives ==
  /\ probe.op = "client"
  /\ probe.stage = "secret"
  /\ probe' = [probe EXCEPT !.stage = "auth"]
  /\ StillUnchanged

\* auth.getClient() returns and google.sheets(...) is the value of the promise
ClientBuilt ==
  /\ probe.op = "client"
  /\ probe.stage = "auth"
  /\ sheetsClientPromise' = "resolved"
  /\ probe' = [probe EXCEPT !.stage = "done", !.clients = @ + 1,
                            !.made = @ + 1, !.handle = probe.made + 1]
  /\ UNCHANGED <<sheets, env, clock, ticks, served, last>>

\* the secret fetch or auth.getClient() throws: the promise is rejected
ResolutionFails ==
  /\ probe.op = "client"
  /\ probe.stage \in {"secret", "auth"}
  /\ sheetsClientPromise' = "rejected"
  /\ probe' = [probe EXCEPT !.stage = "done"]
  /\ UNCHANGED <<sheets, env, clock, ticks, served, last>>

\* a caller's await of the settled promise continues
Settle ==
  /\ probe.op = "client"
  /\ sheetsClientPromise \in {"resolved", "rejected"}
  /\ \E i \in 1..Len(probe.calls) :
       /\ probe.calls[i].handle = 0
       /\ probe' = [probe EXCEPT !.calls[i].handle =
                      IF sheetsClientPromise = "resolved" THEN probe.handle ELSE -1]
  /\ StillUnchanged

\* the handler has returned, and the same process takes the next request
NextRequestInProcess ==
  /\ probe.op = "client"
  /\ \E i \in 1..Len(probe.calls) : probe.calls[i].request = probe.request
  /\ \A i \in 1..Len(probe.calls) : probe.calls[i].handle # 0
  /\ probe' = [probe EXCEPT !.request = @ + 1]
  /\ StillUnchanged

\* a new execution context loads the module: let sheetsClientPromise = null
FreshProcess ==
  /\ probe.op = "client"
  /\ probe.process < MaxProcesses
  /\ sheetsClientPromise' = "null"
  /\ probe' = FreshModule(probe.process + 1, probe.made, probe.handle)
  /\ UNCHANGED <<sheets, env, clock, ticks, served, last>>

NextClient ==
  \/ CallGetSheetsClient
  \/ SecretArrives
  \/ ClientBuilt
  \/ ResolutionFails
  \/ Settle
  \/ NextRequestInProcess
  \/ FreshProcess

SpecClient == InitClient /\ [][NextClient]_vars

\* C20: a process fetches the secret and builds the client at most once, and
\* exactly once when the resolution has succeeded; every call of the
\* process that has received a client (made before, during or after the
\* resolution, in any request) has received that one client; a process
\* that has made no call has no cached promise, and the client it resolves
\* to is not the client of the process before.
C20_ResolvedOnce ==
  probe.op = "client" =>
    /\ probe.fetches <= 1
    /\ probe.clients <= 1
    /\ probe.fetches = (IF probe.calls = <<>> THEN 0 ELSE 1)
    /\ (probe.calls = <<>>) = (sheetsClientPromise = "null")
    /\ sheetsClientPromise = "resolved" =>
         /\ probe.fetches = 1
         /\ probe.clients = 1
         /\ probe.handle > 0
         /\ probe.handle # probe.before
    /\ \A i \in 1..Len(probe.calls) :
         probe.calls[i].handle > 0 =>
           /\ sheetsClientPromise = "resolved"
           /\ probe.calls[i].handle = probe.handle

\* the second process, after a first one that had a client: a call that
\* started the resolution, a call made while it was in flight and a call
\* of the next request have all received the second client, after one
\* secret fetch
C20_Witness ==
  /\ probe.op = "client"
  /\ probe.process = 2
  /\ probe.before = 1
  /\ Len(probe.calls) = 3
  /\ probe.calls[1].cached = "null" /\ probe.calls[1].request = 1
  /\ probe.calls[2].cached = "pending" /\ probe.calls[2].request = 1
  /\ probe.calls[3].cached = "resolved" /\ probe.calls[3].request = 2
  /\ \A i \in 1..3 : probe.calls[i].handle = 2
  /\ probe.fetches = 1

(***************************************************************************)
(* Matching the person slot.  A family is set up with a list of up to      *)
(* MaxFamilyKids kids, the person slot holds a word in some letter case    *)
(* with blanks and "'s" around it, a text without a word, or is absent,    *)
(* and AdjustPointsIntentHandler handles the request.  probe holds what    *)
(* was said and the family's kids, then also what normalizeKidName         *)
(* returns for them.                                                       *)
(***************************************************************************)
MaxFamilyKids == 2

PersonWords == { "anna", "ben", "zoe" }

\* lead and trail blanks around the word, possessives "'s" behind it after
\* gap blanks, and the letter case of the word as an index of its forms
PersonsSaid ==
  { [isNull |-> FALSE, word |-> w, form |-> f, lead |-> l, gap |-> g,
     possessives |-> n, trail |-> t] :
      w \in PersonWords, f \in 1..3, l \in 0..1, g \in 0..1, n \in 0..2, t \in 0..1 }

Blanks(n) == [i \in 1..n |-> " "]

PersonText(said) ==
  Blanks(said.lead) \o <<FormsOf(said.word)[said.form]>> \o Blanks(said.gap)
    \o [i \in 1..said.possessives |-> "'s"] \o Blanks(said.trail)

\* person slots without a name: absent, blank, only a possessive
NoPersonTexts == { <<>>, <<" ">>, <<"'s">> }

\* the kid lists a family can have: names in Title Case, none of them twice
FamilyKidLists ==
  UNION { { kids \in [1..n -> { <<FormsOf(w)[2]>> : w \in PersonWords }] :
              \A i, j \in 1..n : kids[i] = kids[j] => i = j } : n \in 1..MaxFamilyKids }

FamilySheet(kids) ==
  (FAMILIES_TAB :> [row1 |-> FAMILIES_HEADER, rows |-> <<FamilyRowB(Join(kids))>>])
  @@ (buildFamilyTabName(UserB) :> [row1 |-> EVENTS_HEADER, rows |-> <<>>])
  @@ FreshSheet

InitPerson ==
  /\ sheetsClientPromise = "null"
  /\ env = GoodEnv
  /\ clock \in StartClocks
  /\ ticks = 0
  /\ served = 0
  /\ last = NoStep
  /\ \E kids \in FamilyKidLists :
       /\ sheets = FamilySheet(kids)
       /\ \/ \E said \in PersonsSaid :
               probe = [op |-> "person", said |-> said, raw |-> PersonText(said),
                        kids |-> kids]
          \/ \E raw \in NoPersonTexts :
               probe = [op |-> "person", said |-> Null, raw |-> raw, kids |-> kids]

\* the AdjustPoints request of the family with that person slot
AdjustPerson ==
  /\ probe.op = "person"
  /\ \E r \in Outcomes(AdjustPointsIntentHandler(NewCtx, UserB, probe.raw, <<>>, <<>>,
                                                 clock, clock, FALSE)) :
       /\ sheets' = r.ctx.sheets
       /\ sheetsClientPromise' = r.ctx.client
       /\ last' = [req |-> [type |-> "AdjustPointsIntent", userId |-> UserB,
                            person |-> probe.raw],
                   resp |-> r.resp, eventCalls |-> EventCalls(r.ctx.calls)]
  /\ probe' = [op |-> "personDone", said |-> probe.said, raw |-> probe.raw,
               kids |-> probe.kids, out |-> normalizeKidName(probe.raw, probe.kids)]
  /\ UNCHANGED <<env, clock, ticks, served>>

NextPerson == AdjustPerson

SpecPerson == InitPerson /\ [][NextPerson]_vars

\* the text that was said, lower-cased, without one trailing "'s" and then
\* trimmed, is the word alone
CleanedIsWord(said) ==
  \/ said.possessives = 0
  \/ said.possessives = 1 /\ said.trail = 0

\* the kid whose name, lower-cased, is the word
KidNamed(kids, word) == {i \in 1..Len(kids) : kids[i] = <<FormsOf(word)[2]>>}

\* C21: normalizeKidName returns the kid k when the person text,
\* lower-cased, with a trailing "'s" removed and trimmed, equals k
\* lower-cased, and null for every other text and for an absent one; what
\* it returns is null or one of the family's kids, and the event rows of
\* the family after the request are none, or one row whose person is the
\* kid that was returned.
C21_ExactMatch ==
  probe.op = "personDone" =>
    /\ IF ~probe.said.isNull /\ CleanedIsWord(probe.said)
            /\ KidNamed(probe.kids, probe.said.word) # {}
         THEN \E i \in KidNamed(probe.kids, probe.said.word) : probe.out = probe.kids[i]
         ELSE probe.out = <<>>
    /\ probe.out # <<>> => \E i \in 1..Len(probe.kids) : probe.out = probe.kids[i]
    /\ LET rows == sheets[buildFamilyTabName(UserB)].rows
       IN  /\ Len(rows) <= 1
           /\ Len(rows) = 1 => /\ probe.out # <<>>
                               /\ rows[1].person = probe.out
           /\ last.resp.type = "adjusted" => Len(rows) = 1
           /\ last.resp.type = "whichChild" => probe.out = <<>>

\* " ANNA's" was said in the family of Ben and Anna: Anna is returned and
\* the event row is Anna's
C21_Witness ==
  /\ probe.op = "personDone"
  /\ probe.raw = <<" ", "ANNA", "'s">>
  /\ probe.kids = << <<"Ben">>, <<"Anna">> >>
  /\ probe.out = <<"Anna">>
  /\ Len(sheets[buildFamilyTabName(UserB)].rows) = 1
  /\ sheets[buildFamilyTabName(UserB)].rows[1].person = <<"Anna">>

\* "anna's " was said, with a blank behind the possessive: no kid is
\* returned; the answer asks which child, and no event row is written
C21_NullWitness ==
  /\ probe.op = "personDone"
  /\ probe.raw = <<"anna", "'s", " ">>
  /\ probe.kids = << <<"Anna">> >>
  /\ probe.out = <<>>
  /\ last.resp.type = "whichChild"
  /\ sheets[buildFamilyTabName(UserB)].rows = <<>>

(***************************************************************************)
(* Two requests of one family at the same time, each in a process of its   *)
(* own, interleaved at their external calls: a step of a request is one    *)
(* call, made on the spreadsheet as it is then, with what the request does *)
(* up to its next call.  probe holds the two requests:                     *)
(*   kind    "adjust" (two AdjustPoints requests of the family that is set *)
(*           up) or "configure" (two ConfigureKids requests of a user      *)
(*           without a Families row)                                       *)
(*   reqs    of each request what was said, the promise cached in its      *)
(*           process, the spreadsheet at each call it has made, whether    *)
(*           its handler has returned, and the response                    *)
(* A Summary request follows when both have returned.                      *)
(***************************************************************************)
\* person, direction and delta slots, the kid meant and the delta meant
RaceUtterances ==
  { [person |-> <<"anna">>, direction |-> <<>>, delta |-> <<"2">>,
     kid |-> <<"Anna">>, signed |-> 2],
    [person |-> <<"Ben", "'s">>, direction |-> <<"reduce">>, delta |-> <<"1">>,
     kid |-> <<"Ben">>, signed |-> -1] }

RaceKidsTexts ==
  { <<"krish">>, <<"Anna", ",", " ", "Ben">> }

RaceRequest(said, client) ==
  [said |-> said, client |-> client, seen |-> <<>>, done |-> FALSE,
   resp |-> [type |-> "none"]]

\* the first request is the first of its process, the second is not
RaceClients == { <<"null", "resolved">> }

InitRace ==
  /\ sheetsClientPromise = "null"
  /\ env = GoodEnv
  /\ clock \in StartClocks
  /\ ticks = 0
  /\ served = 0
  /\ last = NoStep
  /\ \E clients \in RaceClients :
       \/ /\ sheets = SetUpSheet
          /\ \E s1, s2 \in RaceUtterances :
               probe = [op |-> "race", kind |-> "adjust", userId |-> UserB,
                        reqs |-> <<RaceRequest(s1, clients[1]), RaceRequest(s2, clients[2])>>]
       \/ /\ sheets \in {FreshSheet, SetUpSheet}
          /\ \E k1, k2 \in RaceKidsTexts :
               probe = [op |-> "race", kind |-> "configure", userId |-> UserA,
                        reqs |-> <<RaceRequest(k1, clients[1]), RaceRequest(k2, clients[2])>>]

\* the context of a request that has made its calls on seen
StepCtx(client, seen) ==
  [sheets |-> sheets, client |-> client, calls |-> <<>>, err |-> FALSE,
   seen |-> seen, limit |-> Len(seen), parked |-> FALSE]

\* the handler of request i, run up to the call after those it has made
RunUpTo(i, seen) ==
  IF probe.kind = "adjust"
    THEN AdjustPointsIntentHandler(StepCtx(probe.reqs[i].client, seen), probe.userId,
                                   probe.reqs[i].said.person, probe.reqs[i].said.direction,
                                   probe.reqs[i].said.delta, clock, clock, FALSE)
    ELSE ConfigureKidsIntentHandler(StepCtx(probe.reqs[i].client, seen), probe.userId,
                                    probe.reqs[i].said, clock)

\* request i makes its next call, or returns without one
RaceStep ==
  /\ probe.op = "race"
  /\ \E i \in 1..2 :
       /\ ~probe.reqs[i].done
       /\ \E run \in {RunUpTo(i, Append(probe.reqs[i].seen, sheets))} :
            /\ sheets' = run.ctx.sheets
            /\ probe' = [probe EXCEPT
                           !.reqs[i] = IF run.ctx.parked
                                         THEN [@ EXCEPT !.seen = Append(@, sheets)]
                                         ELSE [@ EXCEPT !.seen = Append(@, sheets),
                                                        !.done = TRUE,
                                                        !.resp = run.resp]]
  /\ UNCHANGED <<sheetsClientPromise, env, clock, ticks, served, last>>

\* both have returned; a process that is warm handles a Summary request
SummaryAfterRace ==
  /\ probe.op = "race"
  /\ probe.reqs[1].done /\ probe.reqs[2].done
  /\ served = 0
  /\ \E rawPeriod \in PeriodTexts :
       \E r \in {SummaryIntentHandler([NewCtx EXCEPT !.client = "resolved"], probe.userId,
                                      rawPeriod, clock, FALSE)} :
         /\ sheets' = r.ctx.sheets
         /\ sheetsClientPromise' = r.ctx.client
         /\ last' = [req |-> [type |-> "SummaryIntent", userId |-> probe.userId,
                              period |-> rawPeriod, apl |-> FALSE],
                     resp |-> r.resp, eventCalls |-> EventCalls(r.ctx.calls)]
  /\ served' = 1
  /\ UNCHANGED <<env, clock, ticks, probe>>

NextRace == RaceStep \/ SummaryAfterRace

SpecRace == InitRace /\ [][NextRace]_vars

\* the rows of the events tab of the family that came of request i
RowsOfRequest(i) ==
  LET rows == sheets[buildFamilyTabName(UserB)].rows
  IN  {k \in 2..Len(rows) : /\ rows[k].person = probe.reqs[i].said.kid
                            /\ rows[k].delta = FormatInt(probe.reqs[i].said.signed)}

\* what the kid has on 31 December when both events count: the point Anna
\* had before, and the deltas of the requests for the kid
BothCounted(kid) ==
  (IF kid = <<"Anna">> THEN 1 ELSE 0)
  + (IF probe.reqs[1].said.kid = kid THEN probe.reqs[1].said.signed ELSE 0)
  + (IF probe.reqs[2].said.kid = kid THEN probe.reqs[2].said.signed ELSE 0)

\* C22: when two AdjustPoints requests of the family, interleaved at their
\* external calls, have both returned, both were answered with the
\* adjustment, the log holds the row it had and one row of each request,
\* and the Summary request that follows speaks, for every period and kid,
\* the sum over the earlier event and both new events.
C22_NoLostUpdate ==
  (/\ probe.op = "race" /\ probe.kind = "adjust"
   /\ probe.reqs[1].done /\ probe.reqs[2].done) =>
    /\ probe.reqs[1].resp.type = "adjusted"
    /\ probe.reqs[2].resp.type = "adjusted"
    /\ LET rows == sheets[buildFamilyTabName(UserB)].rows
       IN  /\ Len(rows) = 3
           /\ rows[1] = EarlierEvent
           /\ \E k1 \in RowsOfRequest(1), k2 \in RowsOfRequest(2) : k1 # k2
    /\ last.req.type = "SummaryIntent" =>
         /\ last.resp.type = "summary"
         /\ Len(last.resp.speech.parts) = 2
         /\ \A i \in 1..2 :
              last.resp.speech.parts[i].has
                = formatPoints(BothCounted(last.resp.speech.parts[i].kid))

\* "reduce 1 for Ben's" appended between the first call and the append of
\* "2 for anna", and read the log after that append; the summary of the
\* week followed
C22_Witness ==
  /\ probe.op = "race" /\ probe.kind = "adjust"
  /\ probe.reqs[1].done /\ probe.reqs[2].done
  /\ probe.reqs[1].said.kid = <<"Anna">> /\ probe.reqs[2].said.kid = <<"Ben">>
  /\ Len(probe.reqs[1].seen[1][buildFamilyTabName(UserB)].rows) = 1
  /\ sheets[buildFamilyTabName(UserB)].rows[2].person = <<"Ben">>
  /\ sheets[buildFamilyTabName(UserB)].rows[3].person = <<"Anna">>
  /\ probe.reqs[2].resp.type = "adjusted"
  /\ probe.reqs[2].resp.has = formatPoints(-1)
  /\ Len(probe.reqs[2].seen[Len(probe.reqs[2].seen)][buildFamilyTabName(UserB)].rows) = 3
  /\ last.req.type = "SummaryIntent"
  /\ last.resp.type = "summary"
  /\ last.resp.speech.period = "week"
  /\ last.resp.speech.parts[1].has = formatPoints(3)

\* the Families rows of the user, by their place
FamilyRowsOfUser(userId) ==
  IF FAMILIES_TAB \notin DOMAIN sheets THEN {}
  ELSE {k \in 1..Len(sheets[FAMILIES_TAB].rows) :
          sheets[FAMILIES_TAB].rows[k].user_id = userId}

\* C23: when two ConfigureKids requests of a user without a Families row,
\* interleaved at their external calls, have both returned, the Families
\* tab has exactly one row of the user and the user's events tab is there.
C23_OneFamilyRow ==
  (/\ probe.op = "race" /\ probe.kind = "configure"
   /\ probe.reqs[1].done /\ probe.reqs[2].done) =>
    /\ Cardinality(FamilyRowsOfUser(probe.userId)) = 1
    /\ buildFamilyTabName(probe.userId) \in DOMAIN sheets

\* both requests were answered with the confirmation and each has appended
\* a row of the user
C23_TwoRowsReached ==
  /\ probe.op = "race" /\ probe.kind = "configure"
  /\ probe.reqs[1].done /\ probe.reqs[2].done
  /\ probe.reqs[1].resp.type = "configured"
  /\ probe.reqs[2].resp.type = "configured"
  /\ Cardinality(FamilyRowsOfUser(probe.userId)) = 2

\* the two requests found the events tab missing; the request that added
\* it second was answered with the apology
C23_SecondAddRejected ==
  /\ probe.op = "race" /\ probe.kind = "configure"
  /\ probe.reqs[1].done /\ probe.reqs[2].done
  /\ probe.reqs[1].resp.type = "configured"
  /\ probe.reqs[2].resp = Apology
  /\ Cardinality(FamilyRowsOfUser(probe.userId)) = 1

\* the rows of a tab, none when the tab is not there
RowsIn(sheet, tab) == IF tab \in DOMAIN sheet THEN sheet[tab].rows ELSE <<>>

\* C24: a request answered with the apology leaves what is stored as it
\* was: after such an AdjustPoints request every events tab has the rows it
\* had, and after such a ConfigureKids request the Families tab has the rows
\* it had and the spreadsheet has the tabs it had.
C24_FailedLeavesState ==
  [][ (served' = served + 1 /\ last'.resp = Apology) =>
        /\ last'.req.type = "AdjustPointsIntent" =>
             \A userId \in Users :
               RowsIn(sheets', buildFamilyTabName(userId))
                 = RowsIn(sheets, buildFamilyTabName(userId))
        /\ last'.req.type = "ConfigureKidsIntent" =>
             /\ RowsIn(sheets', FAMILIES_TAB) = RowsIn(sheets, FAMILIES_TAB)
             /\ DOMAIN sheets' = DOMAIN sheets
    ]_vars

\* an AdjustPoints request appended its row, the read of the log that
\* follows was rejected, and the answer is the apology
C24_RowKeptReached ==
  /\ last.req.type = "AdjustPointsIntent"
  /\ last.resp = Apology
  /\ last.eventCalls = {"values.append A:F", "values.get A2:F"}
  /\ Len(sheets[buildFamilyTabName(UserB)].rows) = 2

\* a ConfigureKids request on a new spreadsheet added the Families tab, a
\* later call was rejected, and the answer is the apology
C24_TabKeptReached ==
  /\ last.req.type = "ConfigureKidsIntent"
  /\ last.resp = Apology
  /\ served = 1
  /\ FAMILIES_TAB \in DOMAIN sheets
  /\ sheets[FAMILIES_TAB].rows = <<>>
  /\ Cardinality(DOMAIN sheets) = 2

\* C25: a rejected promise of the client is not kept: a request of a user,
\* handled by a handler that needs the spreadsheet in a process whose
\* earlier resolution of the client failed, resolves the client again, and
\* when none of its calls is rejected it is not answered with the apology.
C25_ResolvedAgain ==
  [][ (/\ served' = served + 1
       /\ sheetsClientPromise = "rejected"
       /\ last'.handler \in DataHandlers
       /\ last'.req.userId # NoUser
       /\ last'.failed = 0
       /\ last'.resp.type # "noNames") =>
        /\ last'.resp # Apology
        /\ last'.calls # <<>>
        /\ last'.calls[1] = "getSecretValue"
        /\ sheetsClientPromise' = "resolved"
    ]_vars

\* the secret fetch of the first request was rejected; the second request
\* of the process, a launch, made no call and was answered with the apology
C25_StoredFailureReached ==
  /\ served = 2
  /\ sheetsClientPromise = "rejected"
  /\ last.req.type = "LaunchRequest"
  /\ last.req.userId = UserB
  /\ last.failed = 0
  /\ last.calls = <<>>
  /\ last.resp = Apology

====
